---- MODULE Spec2Model ----
(***************************************************************************)
(* COPPER pricing-intelligence POC: the synthetic data generator, the      *)
(* DuckDB warehouse loader with its analytical views, and the Streamlit    *)
(* query layer (tenant scoping and result caching).                        *)
(*                                                                         *)
(* Money is held in integer cents, fractions (discount, fee, rebate) in    *)
(* thousandths, percentages in tenths of a percent.  SQL text is held as   *)
(* a sequence of tokens, evaluated by a small WHERE-clause parser.         *)
(***************************************************************************)
EXTENDS Integers, Sequences, FiniteSets, TLC

VARIABLES
    session_tenant,  \* st.session_state["tenant_id"]
    filters,         \* sidebar selection returned by render_filters
    cache,           \* st.cache_data entries of the cached accessors
    shown,           \* what the last page run / accessor call displayed
    lastq,           \* the last SQL text built and executed, with its rows
    idns,            \* idns_df
    products,        \* products_df
    contracts,       \* contracts_df
    transactions,    \* transactions_df: the rows generate_transactions has appended
    txn_error,       \* the exception generate_transactions has raised, or "none"
    db_exists,       \* os.path.exists(DB_PATH)
    db_rels,         \* the tables and views committed to the database file
    writer,          \* the process holding the read-write connection, or 0
    pc,              \* where each process is in ensure_data_ready / main
    removed,         \* per process: the relations its os.remove deleted
    observed,        \* per process: what its last read-only connection saw
    imported,        \* per process: generate_synthetic_data is in sys.modules
    np_random,       \* per process: state of numpy's global generator
    fake_random,     \* per process: state of Faker's shared generator
    gpc,             \* per process: the step of main() it is at
    caller,          \* per process: who called main()
    main_calls,      \* per process: how many times main() has been called
    frames,          \* per process: the data frames of the running main()
    outputs,         \* per process: the tables its completed main() saved and loaded
    _warmup_thread_started,  \* vanna_setup._warmup_thread_started
    _vanna_warmup_done,      \* vanna_setup._vanna_warmup_done
    spc,             \* per session thread: where it is in start_vanna_warmup_thread
    wpc,             \* per session thread: where the warm-up thread it started is
    outcome,         \* per warm-up thread: how the try block of setup_vanna ended
    vanna_cache,     \* st.cache_resource entry of setup_vanna
    conns,           \* the read-only connections that are open
    qpc,             \* per session thread: where it is in query / get_kpi
    qout,            \* per session thread: what its last query execution did
    chat_history     \* st.session_state.chat_history: the assistant's answers

qvars == <<session_tenant, filters, cache, shown, lastq>>
tvars == <<idns, products, contracts, transactions, txn_error>>
lvars == <<db_exists, db_rels, writer, pc, removed, observed>>
gvars == <<imported, np_random, fake_random, gpc, caller, main_calls, frames, outputs>>
wvars == <<_warmup_thread_started, _vanna_warmup_done, spc, wpc, outcome, vanna_cache>>
cvars == <<conns, qpc, qout>>
svars == <<wvars, cvars, chat_history>>

\* what the query layer, the generator and the loader each leave alone
notq == <<tvars, lvars, gvars, svars>>
nott == <<qvars, lvars, gvars, svars>>
notl == <<qvars, tvars, gvars, svars>>

vars == <<qvars, tvars, lvars, gvars, svars>>

\* the tables of a process that has generated nothing
NoTables ==
    /\ idns = <<>>
    /\ products = <<>>
    /\ contracts = <<>>
    /\ transactions = <<>>
    /\ txn_error = "none"

\* number of operating-system processes (Streamlit servers, generator runs)
NumProcs == 2

Procs == 1..NumProcs

\* load_into_duckdb: the tables, in the order of the dict, then the views
TABLES == <<"gpos", "idns", "facilities", "products", "contracts", "rebate_programs",
            "transactions">>

VIEWS == <<"v_portfolio_summary", "v_price_waterfall", "v_customer_performance",
           "v_monthly_trends", "v_contract_risk">>

RelationOrder == TABLES \o VIEWS

Relations == {RelationOrder[k] : k \in 1..Len(RelationOrder)}

\* a database holding every relation, created from the data frames of run `from`
FullDb(from) == {[name |-> r, from |-> from] : r \in Relations}

\* a warehouse that is loaded and that nobody writes
LoadedWarehouse ==
    /\ db_exists = TRUE
    /\ db_rels = FullDb(0)
    /\ writer = 0
    /\ pc = [p \in Procs |-> "idle"]
    /\ removed = [p \in Procs |-> {}]
    /\ observed = [p \in Procs |-> [ok |-> FALSE, rels |-> {}]]

\* the data frames of a main() that has generated nothing
NoFrames ==
    [idns |-> <<>>, facilities |-> <<>>, products |-> <<>>, contracts |-> <<>>,
     rebate_programs |-> <<>>, transactions |-> <<>>]

\* processes that have not imported the generator module
NoGeneration ==
    /\ imported = [p \in Procs |-> FALSE]
    /\ np_random = [p \in Procs |-> 0]
    /\ fake_random = [p \in Procs |-> 0]
    /\ gpc = [p \in Procs |-> "idle"]
    /\ caller = [p \in Procs |-> "none"]
    /\ main_calls = [p \in Procs |-> 0]
    /\ frames = [p \in Procs |-> NoFrames]
    /\ outputs = [p \in Procs |-> NoFrames]

\* number of session threads (script runs) in one Streamlit server
NumSessions == 2

Sessions == 1..NumSessions

\* a server whose sessions have started no warm-up, hold no connection and
\* have asked the assistant nothing
NoThreads ==
    /\ _warmup_thread_started = FALSE
    /\ _vanna_warmup_done = FALSE
    /\ spc = [s \in Sessions |-> "idle"]
    /\ wpc = [s \in Sessions |-> "none"]
    /\ outcome = [s \in Sessions |-> "none"]
    /\ vanna_cache = "none"
    /\ conns = {}
    /\ qpc = [s \in Sessions |-> "idle"]
    /\ qout = [s \in Sessions |-> [fn |-> "none", opened |-> 0, sql |-> "none", result |-> "none"]]
    /\ chat_history = <<>>

\* a session that has queried nothing
NoSession ==
    /\ session_tenant = "meddevice_corp"
    /\ filters = [category |-> "All", region |-> "All", gpo |-> "All", structure |-> "All"]
    /\ cache = {}
    /\ shown = [page |-> "none", tenant |-> "None", calls |-> {}, rows |-> {}]
    /\ lastq = [built |-> FALSE, tid |-> "None", extra |-> <<>>, sql |-> <<>>, rows |-> {}]

(***************************************************************************)
(* Tenants and the warehouse rows the query layer reads                    *)
(***************************************************************************)

\* config/tenant_config.py: the tenant catalogue
TENANT_IDS == {"meddevice_corp", "orthotech_inc"}

CategoryOptions == {"All", "Cardiovascular"}
RegionOptions == {"All", "West"}
GpoOptions == {"All", "Vizient"}
StructureOptions == {"All", "PV"}

FilterSelections ==
    [category : CategoryOptions, region : RegionOptions,
     gpo : GpoOptions, structure : StructureOptions]

\* the selections the sidebar walks through while the cache is observed
SidebarSelections ==
    {f \in FilterSelections : f.region = "All" /\ f.structure = "All" /\ f.gpo = "All"}

NoFilters == [category |-> "All", region |-> "All", gpo |-> "All", structure |-> "All"]

\* Rows of the tenant-scoped relations as a reader sees them: every relation
\* carries tenant_id and the filterable dimensions.  An IDN has one GPO
\* (generate_idns) and may hold contracts of both tenants (generate_contracts
\* draws the tenant per contract, independently of the IDN).
Row(t, cat, idn) ==
    [tenant_id |-> t, device_category |-> cat, region |-> "West",
     gpo_name |-> IF idn = "IDN-001" THEN "Vizient" ELSE "Premier",
     deal_structure |-> "PV", idn_id |-> idn, status |-> "Active",
     risk_status |-> IF cat = "Cardiovascular" THEN "Critical" ELSE "Healthy"]

Warehouse ==
    {Row(t, cat, idn) : t \in TENANT_IDS, cat \in {"Cardiovascular", "Consumables"},
                        idn \in {"IDN-001", "IDN-002"}}

(***************************************************************************)
(* SQL text as tokens                                                      *)
(***************************************************************************)

Kw(word) == [kind |-> word, col |-> "", vals |-> {}]
Pred(col, vals) == [kind |-> "pred", col |-> col, vals |-> vals]

WHERE == Kw("WHERE")
AND == Kw("AND")
SubqOpen == Kw("gpo_id IN (SELECT gpo_id FROM gpos")
SubqClose == Kw(")")

\* str.replace(tok, "", 1): drop the first occurrence of a token
RECURSIVE ReplaceFirst(_, _)
ReplaceFirst(s, tok) ==
    IF s = <<>> THEN <<>>
    ELSE IF Head(s) = tok THEN Tail(s)
    ELSE <<Head(s)>> \o ReplaceFirst(Tail(s), tok)

\* str.replace(tok, ""): drop every occurrence of a token
RECURSIVE ReplaceAll(_, _)
ReplaceAll(s, tok) ==
    IF s = <<>> THEN <<>>
    ELSE IF Head(s) = tok THEN ReplaceAll(Tail(s), tok)
    ELSE <<Head(s)>> \o ReplaceAll(Tail(s), tok)

\* " AND ".join(clauses)
RECURSIVE JoinAnd(_)
JoinAnd(clauses) ==
    IF clauses = <<>> THEN <<>>
    ELSE IF Len(clauses) = 1 THEN clauses[1]
    ELSE clauses[1] \o <<AND>> \o JoinAnd(Tail(clauses))

build_where_clause(f, use_gpo_name, include_keys) ==
    LET c1 == IF "category" \in include_keys /\ f.category # "All"
              THEN <<<<Pred("device_category", {f.category})>>>> ELSE <<>>
        c2 == IF "region" \in include_keys /\ f.region # "All"
              THEN <<<<Pred("region", {f.region})>>>> ELSE <<>>
        c3 == IF "structure" \in include_keys /\ f.structure # "All"
              THEN <<<<Pred("deal_structure", {f.structure})>>>> ELSE <<>>
        c4 == IF "gpo" \in include_keys /\ f.gpo # "All"
              THEN IF use_gpo_name
                   THEN <<<<Pred("gpo_name", {f.gpo})>>>>
                   ELSE <<<<SubqOpen, WHERE, Pred("name", {f.gpo}), SubqClose>>>>
              ELSE <<>>
        clauses == c1 \o c2 \o c3 \o c4
    IN  IF clauses # <<>> THEN <<WHERE>> \o JoinAnd(clauses) ELSE <<>>

get_current_tenant_id == session_tenant

build_tenant_where_no_tenant(extra_where, tenant_id_override) ==
    IF extra_where # <<>>
    THEN <<WHERE>> \o ReplaceFirst(extra_where, WHERE)
    ELSE <<WHERE, Pred("tenant_id", {IF tenant_id_override # "None"
                                     THEN tenant_id_override
                                     ELSE get_current_tenant_id})>>

build_tenant_where(extra_where, tenant_id_override) ==
    LET tid == IF tenant_id_override # "None" THEN tenant_id_override
               ELSE get_current_tenant_id
        tenant_part == Pred("tenant_id", {tid})
    IN  IF extra_where # <<>>
        THEN <<WHERE, tenant_part, AND>> \o ReplaceFirst(extra_where, WHERE)
        ELSE <<WHERE, tenant_part>>

(***************************************************************************)
(* What DuckDB does with a WHERE clause: parse it as a conjunction of      *)
(* predicates (a gpo_id IN (SELECT ...) subquery counts as one), or fail.  *)
(***************************************************************************)

ParseError == [ok |-> FALSE, preds |-> <<>>]

RECURSIVE ParseItem(_, _, _)
ParseItem(toks, i, acc) ==
    IF i > Len(toks) THEN ParseError
    ELSE IF toks[i].kind = "pred"
    THEN IF i = Len(toks) THEN [ok |-> TRUE, preds |-> Append(acc, toks[i])]
         ELSE IF toks[i + 1] = AND THEN ParseItem(toks, i + 2, Append(acc, toks[i]))
         ELSE ParseError
    ELSE IF toks[i] = SubqOpen
    THEN IF i + 3 <= Len(toks) /\ toks[i + 1] = WHERE /\ toks[i + 2].kind = "pred"
            /\ toks[i + 2].col = "name" /\ toks[i + 3] = SubqClose
         THEN LET p == Pred("gpo_name", toks[i + 2].vals)
              IN  IF i + 3 = Len(toks) THEN [ok |-> TRUE, preds |-> Append(acc, p)]
                  ELSE IF toks[i + 4] = AND THEN ParseItem(toks, i + 5, Append(acc, p))
                  ELSE ParseError
         ELSE ParseError
    ELSE ParseError

ParseWhere(toks) ==
    IF toks = <<>> THEN [ok |-> TRUE, preds |-> <<>>]
    ELSE IF Head(toks) = WHERE THEN ParseItem(toks, 2, <<>>)
    ELSE ParseError

Holds(p, row) == p.col \in DOMAIN row /\ row[p.col] \in p.vals

\* con.execute(sql).fetchdf(): the rows the WHERE clause keeps; a clause that
\* does not parse raises, and no row is returned
EvalQuery(toks) ==
    LET parsed == ParseWhere(toks)
    IN  IF parsed.ok
        THEN {row \in Warehouse : \A k \in 1..Len(parsed.preds) : Holds(parsed.preds[k], row)}
        ELSE {}

(***************************************************************************)
(* The query layer: st.cache_data and the cached accessors                 *)
(***************************************************************************)

\* @st.cache_data(ttl=300)
CACHE_TTL == 300

\* seconds that pass in one Tick
TickSeconds == 150

\* query(sql) / query_params / get_kpi / get_kpi_params: their own cache is keyed
\* by the whole SQL text and parameters and the warehouse does not change
\* between calls, so a hit returns what execution returns
query(sql) == EvalQuery(sql)

\* st.cache_data hashes the function and its arguments, except the arguments
\* whose name starts with an underscore: _tenant_id is not part of the key
CacheKey(fn, where_clause, _tenant_id) == <<fn, where_clause>>

\* One call of a cached accessor get_*(where_clause, _tenant_id) against cache c
AccessorCall(c, fn, where_clause, _tenant_id) ==
    LET tid == IF _tenant_id # "None" THEN _tenant_id ELSE get_current_tenant_id
        key == CacheKey(fn, where_clause, _tenant_id)
        hits == {e \in c : e.key = key}
    IN  IF hits # {}
        THEN LET e == CHOOSE x \in hits : TRUE
             IN  [fn |-> fn, where_clause |-> where_clause, key |-> key, called_for |-> tid,
                  hit |-> TRUE, cached_for |-> e.tid, rows |-> e.rows]
        ELSE [fn |-> fn, where_clause |-> where_clause, key |-> key, called_for |-> tid,
              hit |-> FALSE, cached_for |-> tid,
              rows |-> query(build_tenant_where(where_clause, tid))]

\* the entries the calls of one script run add to the cache
Stored(calls) ==
    {[key |-> k.key, tid |-> k.cached_for, rows |-> k.rows, age |-> 0] :
        k \in {x \in calls : ~x.hit}}

RowsOf(calls) == UNION {k.rows : k \in calls}

NoShown == [page |-> "none", tenant |-> "None", calls |-> {}, rows |-> {}]
NoQuery == [built |-> FALSE, tid |-> "None", extra |-> <<>>, sql |-> <<>>, rows |-> {}]

AllKeys == {"category", "region", "structure", "gpo"}

\* app.py: the tenant selector writes the session state
SelectTenant(t) ==
    /\ t # session_tenant
    /\ session_tenant' = t
    /\ UNCHANGED <<filters, cache, shown, lastq, notq>>

\* the sidebar select boxes of render_filters
SetFilters(f) ==
    /\ f # filters
    /\ filters' = f
    /\ UNCHANGED <<session_tenant, cache, shown, lastq, notq>>

\* time passes; entries older than the TTL are dropped
Tick ==
    /\ cache # {}
    /\ cache' = {[e EXCEPT !.age = e.age + TickSeconds] :
                    e \in {x \in cache : x.age + TickSeconds < CACHE_TTL}}
    /\ UNCHANGED <<session_tenant, filters, shown, lastq, notq>>

\* pages/02_portfolio.py, one script run
RenderPortfolio ==
    LET tid == get_current_tenant_id
        where == build_where_clause(filters, FALSE, AllKeys)
        where_waterfall == build_where_clause(filters, FALSE, {"category"})
        where_portfolio == build_where_clause(filters, FALSE, {"category", "structure"})
        where_trends == build_where_clause(filters, FALSE, {"category"})
        where_customers == build_where_clause(filters, TRUE, {"region", "gpo"})
        where_risk == build_where_clause(filters, FALSE, {"category", "structure"})
        risk_conditions == IF where_risk # <<>>
                           THEN ReplaceAll(where_risk, WHERE) \o <<AND>> ELSE <<>>
        at_risk_extra == risk_conditions \o <<Pred("risk_status", {"Critical", "At Risk"})>>
        kpi_sql == build_tenant_where(where, "None")
        active_sql == <<WHERE, Pred("tenant_id", {tid}), AND, Pred("status", {"Active"})>>
        at_risk_sql == build_tenant_where(at_risk_extra, "None")
        calls == {AccessorCall(cache, "get_device_categories", <<>>, tid),
                  AccessorCall(cache, "get_regions", <<>>, tid),
                  AccessorCall(cache, "get_gpo_names", <<>>, tid),
                  AccessorCall(cache, "get_price_waterfall", where_waterfall, tid),
                  AccessorCall(cache, "get_monthly_trends", where_trends, tid),
                  AccessorCall(cache, "get_portfolio_summary", where_portfolio, tid),
                  AccessorCall(cache, "get_customer_performance", where_customers, tid),
                  AccessorCall(cache, "get_contract_risk", where_risk, tid)}
    IN  /\ cache' = cache \cup Stored(calls)
        /\ shown' = [page |-> "portfolio", tenant |-> tid, calls |-> calls,
                     rows |-> RowsOf(calls) \cup query(kpi_sql) \cup query(active_sql)
                              \cup query(at_risk_sql)]
        /\ lastq' = [built |-> TRUE, tid |-> tid, extra |-> at_risk_extra,
                     sql |-> at_risk_sql, rows |-> query(at_risk_sql)]
        /\ UNCHANGED <<session_tenant, filters, notq>>

\* pages/03_customer_intel.py, one script run with the customer idn selected
RenderCustomerIntel(idn_id) ==
    LET tid == get_current_tenant_id
        idn_list == AccessorCall(cache, "get_idn_list", <<>>, "None")
        by_idn == <<WHERE, Pred("idn_id", {idn_id})>>
    IN  /\ idn_id \in {r.idn_id : r \in idn_list.rows}
        /\ cache' = cache \cup Stored({idn_list})
        /\ shown' = [page |-> "customer_intel", tenant |-> tid, calls |-> {idn_list},
                     rows |-> idn_list.rows \cup query(by_idn)]
        /\ lastq' = [built |-> FALSE, tid |-> tid, extra |-> <<>>,
                     sql |-> by_idn, rows |-> query(by_idn)]
        /\ UNCHANGED <<session_tenant, filters, notq>>

IdnIds == {r.idn_id : r \in Warehouse}

InitQuery ==
    /\ NoThreads
    /\ NoGeneration
    /\ session_tenant = "meddevice_corp"
    /\ filters = NoFilters
    /\ cache = {}
    /\ shown = NoShown
    /\ lastq = NoQuery
    /\ NoTables
    /\ LoadedWarehouse

NextQuery ==
    \/ \E t \in TENANT_IDS : SelectTenant(t)
    \/ \E f \in SidebarSelections : SetFilters(f)
    \/ Tick
    \/ RenderPortfolio
    \/ \E i \in IdnIds : RenderCustomerIntel(i)

SpecQuery == InitQuery /\ [][NextQuery]_vars

(***************************************************************************)
(* build_tenant_where applied to every filter selection                    *)
(***************************************************************************)

\* the include_keys the pages pass to build_where_clause
IncludeKeySets == {AllKeys, {"category"}, {"category", "structure"}, {"region", "gpo"}}

\* build_tenant_where(build_where_clause(filters, ...), tenant_id_override), executed
BuildFromFilters(use_gpo_name, include_keys, tenant_id_override) ==
    LET extra == build_where_clause(filters, use_gpo_name, include_keys)
        sql == build_tenant_where(extra, tenant_id_override)
    IN  /\ lastq' = [built |-> TRUE,
                     tid |-> IF tenant_id_override # "None" THEN tenant_id_override
                             ELSE get_current_tenant_id,
                     extra |-> extra, sql |-> sql, rows |-> query(sql)]
        /\ UNCHANGED <<session_tenant, filters, cache, shown, notq>>

\* pages/02_portfolio.py: the at-risk KPI passes conditions without a WHERE
BuildAtRisk ==
    LET where_risk == build_where_clause(filters, FALSE, {"category", "structure"})
        risk_conditions == IF where_risk # <<>>
                           THEN ReplaceAll(where_risk, WHERE) \o <<AND>> ELSE <<>>
        at_risk_extra == risk_conditions \o <<Pred("risk_status", {"Critical", "At Risk"})>>
        sql == build_tenant_where(at_risk_extra, "None")
    IN  /\ lastq' = [built |-> TRUE, tid |-> get_current_tenant_id,
                     extra |-> at_risk_extra, sql |-> sql, rows |-> query(sql)]
        /\ UNCHANGED <<session_tenant, filters, cache, shown, notq>>

InitWhere ==
    /\ NoThreads
    /\ NoGeneration
    /\ session_tenant \in TENANT_IDS
    /\ filters \in FilterSelections
    /\ cache = {}
    /\ shown = NoShown
    /\ lastq = NoQuery
    /\ NoTables
    /\ LoadedWarehouse

NextWhere ==
    \/ \E t \in TENANT_IDS : SelectTenant(t)
    \/ \E f \in FilterSelections : SetFilters(f)
    \/ \E g \in BOOLEAN, ks \in IncludeKeySets, o \in TENANT_IDS \cup {"None"} :
          BuildFromFilters(g, ks, o)
    \/ BuildAtRisk

SpecWhere == InitWhere /\ [][NextWhere]_vars

(***************************************************************************)
(* Claims about the query layer                                            *)
(***************************************************************************)

\* C1: a cached accessor called for one tenant never returns the result that
\* was cached for another tenant (the cache key incorporates the tenant id).
C1_CacheKeyedByTenant ==
    \A k \in shown.calls : k.hit => k.cached_for = k.called_for

\* C4: the clause build_tenant_where returns starts with tenant_id = '<tenant>',
\* whatever build_where_clause produced is AND-ed after it, the clause is one
\* DuckDB accepts, and the query returns no row of another tenant.
C4_TenantPredicateFirst ==
    lastq.built =>
        /\ Len(lastq.sql) >= 2
        /\ lastq.sql[1] = WHERE
        /\ lastq.sql[2] = Pred("tenant_id", {lastq.tid})
        /\ lastq.extra # <<>> =>
              /\ lastq.sql[3] = AND
              /\ SubSeq(lastq.sql, 4, Len(lastq.sql)) = ReplaceFirst(lastq.extra, WHERE)
        /\ ParseWhere(lastq.sql).ok
        /\ \A r \in lastq.rows : r.tenant_id = lastq.tid

\* C4 witness: a query built from a two-dimension filter returned rows, and the
\* warehouse holds a row of another tenant that matches the same filter.
C4_Witness ==
    /\ lastq.built
    /\ Len(lastq.extra) > 3
    /\ \E r \in lastq.rows, o \in Warehouse :
          o.tenant_id # lastq.tid /\ o = [r EXCEPT !.tenant_id = o.tenant_id]

\* C5: every row a page displays belongs to the tenant selected when it ran.
C5_PagesShowOnlyCurrentTenant ==
    \A r \in shown.rows : r.tenant_id = shown.tenant

(***************************************************************************)
(* Fixed-point arithmetic                                                  *)
(***************************************************************************)

\* Python round(): n/d rounded to the nearest integer, ties to even (d > 0)
RoundHalfEven(n, d) ==
    LET q == n \div d
        r == n % d
    IN  IF 2 * r < d THEN q
        ELSE IF 2 * r > d THEN q + 1
        ELSE IF q % 2 = 0 THEN q ELSE q + 1

\* DuckDB ROUND(): n/d rounded to the nearest integer, ties away from zero (d > 0)
RoundHalfAway(n, d) ==
    LET q == n \div d
        r == n % d
    IN  IF 2 * r < d THEN q
        ELSE IF 2 * r > d THEN q + 1
        ELSE IF n >= 0 THEN q + 1 ELSE q

Max(a, b) == IF a >= b THEN a ELSE b
Min(a, b) == IF a <= b THEN a ELSE b

RECURSIVE SumSeq(_)
SumSeq(xs) == IF xs = <<>> THEN 0 ELSE Head(xs) + SumSeq(Tail(xs))

Map(xs, F(_)) == [k \in 1..Len(xs) |-> F(xs[k])]

(***************************************************************************)
(* generate_transactions                                                   *)
(***************************************************************************)

\* GPOS: gpo_id -> admin_fee_pct, in thousandths
GPOS == [g \in {"GPO-001", "GPO-002", "GPO-003", "GPO-004", "GPO-005"} |->
            CASE g = "GPO-001" -> 30
              [] g = "GPO-002" -> 25
              [] g = "GPO-003" -> 20
              [] g = "GPO-004" -> 15
              [] g = "GPO-005" -> 20]

\* number of transactions a run generates
MaxTxns == 2

\* contracts_df.head(50)
HEAD_ROWS == 50

\* the span substituted for a non-positive contract span, in days
DEFAULT_SPAN == 365

\* quantity = max(1, min(quantity, 200))
MAX_QUANTITY == 200

ActiveContractsAll(cs) == cs

\* active_contracts of generate_transactions, with its fallback
ActiveContracts(cs) ==
    LET active == SelectSeq(cs, LAMBDA c : c.status \in {"Active", "Renewed"})
    IN  IF Len(active) = 0 THEN SubSeq(cs, 1, Min(HEAD_ROWS, Len(cs))) ELSE active

CatProductsAll(ps, contract, fallback) == ps

\* cat_products of generate_transactions; the fallback is one sampled product
CatProducts(ps, contract, fallback) ==
    LET cat == SelectSeq(ps, LAMBDA p : p.category = contract.device_category)
    IN  IF Len(cat) = 0 THEN <<ps[fallback]>> ELSE cat

\* margin_pct, in tenths of a percent
MarginPctGuardOnMargin(margin, lowest_net) ==
    IF margin > 0 THEN RoundHalfEven(margin * 1000, lowest_net) ELSE 0

MarginPct(margin, lowest_net) ==
    IF lowest_net > 0 THEN RoundHalfEven(margin * 1000, lowest_net) ELSE 0

\* the fee of the pricing waterfall, in cents
GpoFeeOnList(invoice_price, list_price, gpo_id) == RoundHalfEven(list_price * GPOS[gpo_id], 1000)

GpoFee(invoice_price, list_price, gpo_id) == RoundHalfEven(invoice_price * GPOS[gpo_id], 1000)

\* One iteration of the loop of generate_transactions: the row appended for
\* loop index i (1-based), from the sampled contract and product and the draws
\* rebate_pct (thousandths), quantity_raw (int(lognormal)) and day (offset)
MakeTransaction(i, contract, product, idn, rebate_pct, quantity_raw, day) ==
    LET list_price == product.list_price
        quantity == Max(1, Min(quantity_raw, MAX_QUANTITY))
        invoice_price == RoundHalfEven(list_price * (1000 - contract.base_discount_pct), 1000)
        gpo_fee == GpoFee(invoice_price, list_price, contract.gpo_id)
        rebate_amount == RoundHalfEven(invoice_price * rebate_pct, 1000)
        lowest_net == invoice_price - gpo_fee - rebate_amount
        unit_cost == product.cost
        margin == lowest_net - unit_cost
        margin_pct == MarginPct(margin, lowest_net)
        total_discount_pct == IF list_price > 0
                              THEN RoundHalfEven((list_price - lowest_net) * 1000, list_price)
                              ELSE 0
    IN  [transaction_id |-> i,
         tenant_id |-> contract.tenant_id,
         contract_id |-> contract.contract_id,
         idn_id |-> contract.idn_id,
         gpo_id |-> contract.gpo_id,
         product_id |-> product.product_id,
         transaction_date |-> contract.start_date + day,
         quantity |-> quantity,
         list_price |-> list_price,
         invoice_price |-> invoice_price,
         gpo_admin_fee |-> gpo_fee,
         rebate_amount |-> rebate_amount,
         lowest_net_price |-> lowest_net,
         unit_cost |-> unit_cost,
         margin |-> margin,
         margin_pct |-> margin_pct,
         total_discount_pct |-> total_discount_pct,
         deal_structure |-> contract.deal_structure,
         device_category |-> contract.device_category,
         region |-> idn.region,
         idn_tier |-> idn.tier]

\* the joint draws of one iteration: rebate_pct = round(uniform(0.01, 0.06), 3),
\* int(lognormal(1.5, 1.0)), and the position of randint(0, delta) in its range
TxnDraws ==
    {[rebate_pct |-> 10, quantity_raw |-> 0, day_permille |-> 0],
     [rebate_pct |-> 60, quantity_raw |-> 7, day_permille |-> 999]}

\* delta of generate_transactions: the days of the contract, 365 when it has none
TxnDeltaNoDefault(contract) == contract.end_date - contract.start_date

TxnDelta(contract) ==
    LET span == contract.end_date - contract.start_date
    IN  IF span <= 0 THEN DEFAULT_SPAN ELSE span

\* what generate_transactions raises on its tables, or "none": a frame made
\* from an empty list has no columns, so contracts_df["status"] and
\* products_df["category"] and idns_df["idn_id"] raise KeyError
TxnRaises ==
    IF contracts = <<>> THEN "KeyError"
    ELSE IF MaxTxns > 0 /\ products = <<>> THEN "KeyError"
    ELSE IF MaxTxns > 0 /\ idns = <<>> THEN "KeyError"
    ELSE "none"

\* generate_transactions leaves with an exception and returns no frame
GenerateTransactionRaises ==
    /\ txn_error = "none"
    /\ transactions = <<>>
    /\ TxnRaises # "none"
    /\ txn_error' = TxnRaises
    /\ UNCHANGED <<idns, products, contracts, transactions, nott>>

\* One iteration of the loop of generate_transactions
GenerateTransaction(ci, pi, fallback, draw) ==
    LET active_contracts == ActiveContracts(contracts)
        i == Len(transactions) + 1
    IN  /\ TxnRaises = "none"
        /\ i <= MaxTxns
        /\ ci \in 1..Len(active_contracts)
        /\ fallback \in 1..Len(products)
        /\ LET contract == active_contracts[ci]
               cat_products == CatProducts(products, contract, fallback)
           IN  /\ pi \in 1..Len(cat_products)
               /\ LET product == cat_products[pi]
                      idn == SelectSeq(idns, LAMBDA x : x.idn_id = contract.idn_id)[1]
                      delta == TxnDelta(contract)
                      day == (draw.day_permille * delta) \div 1000
                  IN  transactions' = Append(transactions,
                          MakeTransaction(i, contract, product, idn, draw.rebate_pct,
                                          draw.quantity_raw, day))
        /\ UNCHANGED <<idns, products, contracts, txn_error, nott>>

(***************************************************************************)
(* v_contract_risk, evaluated on demand over the tables                    *)
(***************************************************************************)

\* SQL NULL and non-NULL numbers
Null == [null |-> TRUE, v |-> 0]
Val(n) == [null |-> FALSE, v |-> n]

\* AVG(t.margin_pct) over the joined transactions, kept as sum and count
Avg(xs) == [null |-> xs = <<>>, sum |-> SumSeq(xs), count |-> Len(xs)]

\* AVG(...) < k in three-valued logic, k in the unit of the summands
SqlLessNullAsZero(avg, k) ==
    IF (IF avg.null THEN 0 < k ELSE avg.sum < k * avg.count) THEN "TRUE" ELSE "FALSE"

SqlLess(avg, k) ==
    IF avg.null THEN "NULL"
    ELSE IF avg.sum < k * avg.count THEN "TRUE" ELSE "FALSE"

\* WHEN AVG(t.margin_pct) < 15, in tenths of a percent
AT_RISK_MARGIN == 150

\* WHEN c.base_discount_pct > 0.30, in thousandths
WATCH_DISCOUNT == 300

RiskStatusMarginFirst(c, avg) ==
    IF SqlLess(avg, AT_RISK_MARGIN) = "TRUE" THEN "At Risk"
    ELSE IF c.aks_risk_flag = "High" THEN "Critical"
    ELSE IF c.base_discount_pct > WATCH_DISCOUNT THEN "Watch"
    ELSE "Healthy"

\* the CASE expression of v_contract_risk
RiskStatus(c, avg) ==
    IF c.aks_risk_flag = "High" THEN "Critical"
    ELSE IF SqlLess(avg, AT_RISK_MARGIN) = "TRUE" THEN "At Risk"
    ELSE IF c.base_discount_pct > WATCH_DISCOUNT THEN "Watch"
    ELSE "Healthy"

\* LEFT JOIN transactions t ON c.contract_id = t.contract_id
JoinedTransactionsOnIdn(c, ts) == SelectSeq(ts, LAMBDA t : t.idn_id = c.idn_id)

JoinedTransactions(c, ts) == SelectSeq(ts, LAMBDA t : t.contract_id = c.contract_id)

\* one group of v_contract_risk: contract c joined to idn i and to its
\* transactions among txns
RiskRow(c, i, txns) ==
    LET ts == JoinedTransactions(c, txns)
        avg == Avg(Map(ts, LAMBDA t : t.margin_pct))
    IN  [tenant_id |-> c.tenant_id,
         contract_id |-> c.contract_id,
         idn_name |-> i.name,
         deal_structure |-> c.deal_structure,
         device_category |-> c.device_category,
         status |-> c.status,
         base_discount_pct |-> c.base_discount_pct,
         aks_risk_flag |-> c.aks_risk_flag,
         end_date |-> c.end_date,
         transaction_count |-> Len(ts),
         avg_margin_pct |-> IF avg.null THEN Null
                            ELSE Val(RoundHalfAway(avg.sum, avg.count)),
         total_revenue |-> IF ts = <<>> THEN Null
                           ELSE Val(SumSeq(Map(ts, LAMBDA t : t.invoice_price * t.quantity))),
         risk_status |-> RiskStatus(c, avg)]

\* the view with JOIN idns i ON c.gpo_id = i.gpo_id
v_contract_risk_on_gpo(cs, is, txns) ==
    {RiskRow(cs[kj[1]], is[kj[2]], txns) :
        kj \in {x \in (1..Len(cs)) \X (1..Len(is)) : cs[x[1]].gpo_id = is[x[2]].gpo_id}}

\* FROM contracts c JOIN idns i ON c.idn_id = i.idn_id LEFT JOIN transactions ... GROUP BY,
\* over the tables cs, is and txns: a group for each contract and IDN that join
v_contract_risk_over(cs, is, txns) ==
    {RiskRow(cs[kj[1]], is[kj[2]], txns) :
        kj \in {x \in (1..Len(cs)) \X (1..Len(is)) : cs[x[1]].idn_id = is[x[2]].idn_id}}

\* the view over the tables of the warehouse
v_contract_risk == v_contract_risk_over(contracts, idns, transactions)

(***************************************************************************)
(* The ledger: tables handed to generate_transactions, and its loop        *)
(***************************************************************************)

LedgerIdns ==
    <<[idn_id |-> 1, name |-> "Avery Regional Health", gpo_id |-> "GPO-001",
       region |-> "West", tier |-> "Large"],
      [idn_id |-> 2, name |-> "St. Mary Medical Center", gpo_id |-> "GPO-002",
       region |-> "Midwest", tier |-> "Small"]>>

\* a catalogue with a healthy product, a product sold near cost and a product
\* with a zero list price (prices and costs in cents)
LedgerProducts ==
    <<[product_id |-> 1, category |-> "Cardiovascular", list_price |-> 123457, cost |-> 37037],
      [product_id |-> 2, category |-> "Cardiovascular", list_price |-> 100005, cost |-> 90000],
      [product_id |-> 3, category |-> "Consumables", list_price |-> 0, cost |-> 5]>>

LedgerContract1(discount, aks) ==
    [contract_id |-> 1, tenant_id |-> "meddevice_corp", idn_id |-> 1, gpo_id |-> "GPO-001",
     deal_structure |-> "PV", device_category |-> "Cardiovascular",
     start_date |-> 0, end_date |-> 360, base_discount_pct |-> discount,
     status |-> "Active", aks_risk_flag |-> aks]

LedgerContract2(status) ==
    [contract_id |-> 2, tenant_id |-> "orthotech_inc", idn_id |-> 2, gpo_id |-> "GPO-002",
     deal_structure |-> "DV", device_category |-> "Consumables",
     start_date |-> 100, end_date |-> 100, base_discount_pct |-> 350,
     status |-> status, aks_risk_flag |-> "Medium"]

InitLedger ==
    /\ NoThreads
    /\ NoGeneration
    /\ NoSession
    /\ LoadedWarehouse
    /\ idns = LedgerIdns
    /\ products = LedgerProducts
    /\ \E d \in {100, 300, 350}, a \in {"Low", "High"}, st \in {"Active", "Expired"} :
          contracts = <<LedgerContract1(d, a), LedgerContract2(st)>>
    /\ transactions = <<>>
    /\ txn_error = "none"

NextLedger ==
    \E ci \in 1..Len(contracts), pi \in 1..Len(products), fb \in 1..Len(products),
       draw \in TxnDraws : GenerateTransaction(ci, pi, fb, draw)

SpecLedger == InitLedger /\ [][NextLedger]_vars

(***************************************************************************)
(* Claims about the ledger and the risk view                               *)
(***************************************************************************)

TxnsOf(cid) == {k \in 1..Len(transactions) : transactions[k].contract_id = cid}

RECURSIVE MarginPctSum(_)
MarginPctSum(S) ==
    IF S = {} THEN 0
    ELSE LET k == CHOOSE x \in S : TRUE
         IN  transactions[k].margin_pct + MarginPctSum(S \ {k})

\* average margin_pct of the contract's transactions is below 15 percent
AvgMarginBelow15(cid) ==
    /\ TxnsOf(cid) # {}
    /\ MarginPctSum(TxnsOf(cid)) < 150 * Cardinality(TxnsOf(cid))

ContractById(cid) == CHOOSE c \in {contracts[k] : k \in 1..Len(contracts)} : c.contract_id = cid
ProductById(pid) == CHOOSE q \in {products[k] : k \in 1..Len(products)} : q.product_id = pid

\* C2: every row of v_contract_risk takes the first rule that applies, in the
\* order Critical (AKS flag High), At Risk (average margin below 15), Watch
\* (base discount above 0.30), Healthy.
C2_RiskPriorityOrder ==
    \A row \in v_contract_risk :
        /\ row.aks_risk_flag = "High" => row.risk_status = "Critical"
        /\ row.aks_risk_flag # "High" /\ AvgMarginBelow15(row.contract_id)
              => row.risk_status = "At Risk"
        /\ row.aks_risk_flag # "High" /\ ~AvgMarginBelow15(row.contract_id)
              /\ row.base_discount_pct > 300 => row.risk_status = "Watch"
        /\ row.aks_risk_flag # "High" /\ ~AvgMarginBelow15(row.contract_id)
              /\ row.base_discount_pct <= 300 => row.risk_status = "Healthy"

\* C2 witness: a contract flagged High whose average margin is below 15 percent
C2_Witness ==
    \E row \in v_contract_risk :
        /\ row.aks_risk_flag = "High"
        /\ AvgMarginBelow15(row.contract_id)
        /\ row.risk_status = "Critical"

\* C3: a contract without transactions has exactly one row in v_contract_risk,
\* with transaction_count 0 and a NULL average; it is never At Risk, and with a
\* non-High flag it is Watch above a 0.30 base discount and Healthy otherwise.
C3_NoTransactionsSkipsMarginRule ==
    \A k \in 1..Len(contracts) :
        TxnsOf(contracts[k].contract_id) = {} =>
            LET rows == {r \in v_contract_risk : r.contract_id = contracts[k].contract_id}
            IN  /\ Cardinality(rows) = 1
                /\ \A r \in rows :
                      /\ r.transaction_count = 0
                      /\ r.avg_margin_pct = Null
                      /\ r.risk_status # "At Risk"
                      /\ contracts[k].aks_risk_flag # "High" =>
                            r.risk_status = IF contracts[k].base_discount_pct > 300
                                            THEN "Watch" ELSE "Healthy"

\* C3 witness: the ledger holds transactions, one contract has none and is
\* Healthy, another contract has none and is Watch in some reachable state
C3_Witness ==
    /\ transactions # <<>>
    /\ \E r \in v_contract_risk :
          /\ r.transaction_count = 0
          /\ r.aks_risk_flag # "High"
          /\ r.risk_status = "Healthy"

\* C9: the waterfall of every transaction follows from its product, its
\* contract and the contract's GPO: invoice, fee, lowest net and margin.
C9_WaterfallArithmetic ==
    \A k \in 1..Len(transactions) :
        LET t == transactions[k]
            c == ContractById(t.contract_id)
            q == ProductById(t.product_id)
        IN  /\ t.list_price = q.list_price
            /\ t.unit_cost = q.cost
            /\ t.invoice_price = RoundHalfEven(q.list_price * (1000 - c.base_discount_pct), 1000)
            /\ t.gpo_admin_fee = RoundHalfEven(t.invoice_price * GPOS[c.gpo_id], 1000)
            /\ t.lowest_net_price = t.invoice_price - t.gpo_admin_fee - t.rebate_amount
            /\ t.margin = t.lowest_net_price - q.cost

\* C9 witness: a transaction whose invoice price and fee were both rounded
C9_Witness ==
    \E k \in 1..Len(transactions) :
        LET t == transactions[k]
            c == ContractById(t.contract_id)
        IN  /\ (t.list_price * (1000 - c.base_discount_pct)) % 1000 # 0
            /\ (t.invoice_price * GPOS[c.gpo_id]) % 1000 # 0
            /\ t.gpo_admin_fee > 0
            /\ t.rebate_amount > 0

\* C10: margin_pct is 0 when the lowest net price is not positive, and
\* margin / lowest net * 100 rounded to one decimal when it is positive.
C10_MarginPctDefined ==
    \A k \in 1..Len(transactions) :
        LET t == transactions[k]
        IN  /\ t.lowest_net_price <= 0 => t.margin_pct = 0
            /\ t.lowest_net_price > 0 =>
                  t.margin_pct = RoundHalfEven(t.margin * 1000, t.lowest_net_price)

\* C10 witness: a transaction with no positive lowest net price and a margin
C10_Witness ==
    \E k \in 1..Len(transactions) :
        /\ transactions[k].lowest_net_price <= 0
        /\ transactions[k].margin # 0
        /\ transactions[k].margin_pct = 0

(***************************************************************************)
(* ensure_data_ready, main and load_into_duckdb, run by several processes  *)
(***************************************************************************)

\* utils/ensure_db.py: a Streamlit server starts; ensure_data_ready looks only
\* at whether the file exists.  The generator has a single writer: a server
\* does not start generating while another process is generating.
EnsureDataReady(p) ==
    /\ pc[p] = "idle"
    /\ IF db_exists
       THEN pc' = [pc EXCEPT ![p] = "ready"]
       ELSE /\ \A o \in Procs : pc[o] \notin {"main", "load", "removed", "creating"}
            /\ pc' = [pc EXCEPT ![p] = "main"]
    /\ UNCHANGED <<db_exists, db_rels, writer, removed, observed, notl>>

\* python generate_synthetic_data.py: main() whether or not the file exists
RunGenerator(p) ==
    /\ pc[p] = "idle"
    /\ \A o \in Procs : pc[o] \notin {"main", "load", "removed", "creating"}
    /\ pc' = [pc EXCEPT ![p] = "main"]
    /\ UNCHANGED <<db_exists, db_rels, writer, removed, observed, notl>>

\* main(): the generate_* calls and the CSV export, up to the call of load_into_duckdb
Generate(p) ==
    /\ pc[p] = "main"
    /\ pc' = [pc EXCEPT ![p] = "load"]
    /\ UNCHANGED <<db_exists, db_rels, writer, removed, observed, notl>>

LoadSkipRemove(p) ==
    /\ pc[p] = "load"
    /\ removed' = [removed EXCEPT ![p] = IF db_exists THEN db_rels ELSE {}]
    /\ pc' = [pc EXCEPT ![p] = "removed"]
    /\ UNCHANGED <<db_exists, db_rels, writer, observed, notl>>

\* load_into_duckdb: if os.path.exists(DB_PATH): os.remove(DB_PATH)
LoadRemove(p) ==
    /\ pc[p] = "load"
    /\ removed' = [removed EXCEPT ![p] = IF db_exists THEN db_rels ELSE {}]
    /\ db_exists' = FALSE
    /\ db_rels' = {}
    /\ pc' = [pc EXCEPT ![p] = "removed"]
    /\ UNCHANGED <<writer, observed, notl>>

\* con = duckdb.connect(DB_PATH): creates the file when it is missing
LoadConnect(p) ==
    /\ pc[p] = "removed"
    /\ writer = 0
    /\ db_exists' = TRUE
    /\ writer' = p
    /\ pc' = [pc EXCEPT ![p] = "creating"]
    /\ UNCHANGED <<db_rels, removed, observed, notl>>

\* the relations this connection has created so far
CreatedBy(p) == {r \in db_rels : r.from = p}

\* the next CREATE TABLE ... AS SELECT * FROM df / CREATE VIEW, each committed
\* on its own; creating a relation that exists raises and ends the process
LoadCreate(p) ==
    /\ pc[p] = "creating"
    /\ Cardinality(CreatedBy(p)) < Len(RelationOrder)
    /\ LET name == RelationOrder[Cardinality(CreatedBy(p)) + 1]
       IN  IF \E r \in db_rels : r.name = name
           THEN /\ pc' = [pc EXCEPT ![p] = "dead"]
                /\ writer' = 0
                /\ UNCHANGED db_rels
           ELSE /\ db_rels' = db_rels \cup {[name |-> name, from |-> p]}
                /\ UNCHANGED <<pc, writer>>
    /\ UNCHANGED <<db_exists, removed, observed, notl>>

\* con.close(): load_into_duckdb has completed
LoadClose(p) ==
    /\ pc[p] = "creating"
    /\ Cardinality(CreatedBy(p)) = Len(RelationOrder)
    /\ writer' = 0
    /\ pc' = [pc EXCEPT ![p] = "loaded"]
    /\ UNCHANGED <<db_exists, db_rels, removed, observed, notl>>

\* main() returns: ensure_data_ready returns and the pages run
Finish(p) ==
    /\ pc[p] = "loaded"
    /\ pc' = [pc EXCEPT ![p] = "ready"]
    /\ UNCHANGED <<db_exists, db_rels, writer, removed, observed, notl>>

\* the process is killed while it generates or loads; what was committed stays
Crash(p) ==
    /\ pc[p] \in {"main", "load", "removed", "creating"}
    /\ pc' = [pc EXCEPT ![p] = "dead"]
    /\ writer' = IF writer = p THEN 0 ELSE writer
    /\ UNCHANGED <<db_exists, db_rels, removed, observed, notl>>

\* get_connection(): duckdb.connect(DB_PATH, read_only=True) and a query; the
\* connection fails when the file is missing or another process writes it
Read(p) ==
    /\ pc[p] = "ready"
    /\ observed' = [observed EXCEPT ![p] =
          IF db_exists /\ writer = 0
          THEN [ok |-> TRUE, rels |-> {r.name : r \in db_rels}]
          ELSE [ok |-> FALSE, rels |-> {}]]
    /\ UNCHANGED <<db_exists, db_rels, writer, pc, removed, notl>>

\* what is at DB_PATH before any process starts: nothing, a warehouse of an
\* earlier run, or a file of an earlier schema
InitLoad ==
    /\ NoThreads
    /\ NoGeneration
    /\ NoSession
    /\ NoTables
    /\ \/ db_exists = FALSE /\ db_rels = {}
       \/ db_exists = TRUE /\ db_rels = FullDb(0)
       \/ db_exists = TRUE /\ db_rels = {[name |-> "price_history", from |-> 0]}
    /\ writer = 0
    /\ pc = [p \in Procs |-> "idle"]
    /\ removed = [p \in Procs |-> {}]
    /\ observed = [p \in Procs |-> [ok |-> FALSE, rels |-> {}]]

\* a fresh deployment, or one whose warehouse an earlier run completed
InitStartup ==
    /\ InitLoad
    /\ db_exists => db_rels = FullDb(0)

NextLoad ==
    \E p \in Procs :
        \/ EnsureDataReady(p)
        \/ RunGenerator(p)
        \/ Generate(p)
        \/ LoadRemove(p)
        \/ LoadConnect(p)
        \/ LoadCreate(p)
        \/ LoadClose(p)
        \/ Finish(p)
        \/ Crash(p)
        \/ Read(p)

SpecLoad == InitLoad /\ [][NextLoad]_vars

SpecStartup == InitStartup /\ [][NextLoad]_vars

(***************************************************************************)
(* Claims about the loader                                                 *)
(***************************************************************************)

Complete == Relations \subseteq {r.name : r \in db_rels}

\* C6: no process is treated as ready by ensure_data_ready, and no read-only
\* connection has observed the database, while the file exists and lacks one
\* of the seven tables or five views.
C6_LoadAtomicForReaders ==
    \A p \in Procs :
        /\ pc[p] = "ready" /\ db_exists => Complete
        /\ observed[p].ok => Relations \subseteq observed[p].rels

SEED == 42

\* a generator state is a residue; a draw advances the state and returns it
RNG_MODULUS == 16

Seeded == SEED % RNG_MODULUS

Advance(s) == (5 * s + 3) % RNG_MODULUS

\* the state, and the value drawn, after k draws
RECURSIVE After(_, _)
After(s, k) == IF k = 0 THEN s ELSE After(Advance(s), k - 1)

\* np.random.choice(options) and DataFrame.sample(1), from the value drawn
Choice(options, d) == options[(d % Len(options)) + 1]

\* np.random.uniform(low, high) and np.random.randint(low, high), from the value drawn
Uniform(low, high, d) == low + ((high - low) * d) \div RNG_MODULUS

GPO_IDS == <<"GPO-001", "GPO-002", "GPO-003", "GPO-004", "GPO-005">>

REGIONS == <<"Northeast", "Southeast", "Midwest", "West", "Southwest">>

STATES_BY_REGION ==
    [r \in {"Northeast", "Southeast", "Midwest", "West", "Southwest"} |->
        CASE r = "Northeast" -> <<"NY", "NJ", "PA", "CT", "MA">>
          [] r = "Southeast" -> <<"FL", "GA", "NC", "VA", "TN">>
          [] r = "Midwest" -> <<"IL", "OH", "MI", "IN", "WI">>
          [] r = "West" -> <<"CA", "WA", "OR", "CO", "AZ">>
          [] r = "Southwest" -> <<"TX", "OK", "NM", "LA", "AR">>]

\* the first product of each category; the price ranges are those of the
\* source scaled down by 100 (500 .. 15000 dollars becomes 500 .. 15000 cents),
\* which keeps price * 1000 within 32-bit integers
DEVICE_CATEGORIES ==
    <<[category |-> "Orthopedic Implants", low |-> 500, high |-> 15000,
       products |-> <<"Total Knee System">>],
      [category |-> "Cardiovascular", low |-> 1000, high |-> 30000,
       products |-> <<"Drug-Eluting Stent">>],
      [category |-> "Surgical Instruments", low |-> 50, high |-> 2000,
       products |-> <<"Laparoscopic Stapler">>],
      [category |-> "Consumables", low |-> 5, high |-> 200,
       products |-> <<"Surgical Drape Pack">>]>>

\* generate_idns(n) of main, scaled down
N_IDNS == 2

\* generate_contracts(n) of main, scaled down
N_CONTRACTS == 2

\* int(lognormal(2.5, 0.8)) of generate_idns, from the value drawn
SizeOf(d) == Choice(<<1, 2, 3, 11>>, d)

\* np.clip(sizes, 2, 180)
MIN_SIZE == 2
MAX_SIZE == 180

\* np.clip(sizes, 2, 180) of one size
ClipSize(raw) == Max(MIN_SIZE, Min(raw, MAX_SIZE))

TierOfInclusive(size) ==
    IF size >= 30 THEN "Large" ELSE IF size >= 10 THEN "Medium" ELSE "Small"

\* "tier" of generate_idns
TierOf(size) ==
    IF size > 30 THEN "Large" ELSE IF size > 10 THEN "Medium" ELSE "Small"

\* the row generate_idns appends for loop index i (1-based)
MakeIdn(i, name, size, region, gpo_id, spend, state) ==
    [idn_id |-> i,
     name |-> name,
     gpo_id |-> gpo_id,
     facility_count |-> size,
     annual_spend |-> size * spend,
     region |-> region,
     state |-> state,
     tier |-> TierOf(size)]

\* fake.city(), fake.first_name() and fake.last_name() pick from finite word
\* lists, so that two draws can give the same word; the length of a list here
NAME_WORDS == 2

\* the candidate name of one pass of the loop: a style, chosen by where the
\* draw falls in the generator's range, and a word of the style's list
CandidateName(np1, fk1) ==
    <<<<"city", "saint", "regional", "memorial">>[Uniform(0, 4, np1) + 1],
      Uniform(0, NAME_WORDS, fk1)>>

\* the loop body without the membership test: the first candidate is taken
UniqueNameNoRetry(np, fk, names) ==
    [name |-> CandidateName(Advance(np), Advance(fk)), np |-> Advance(np), fake |-> Advance(fk)]

\* the while True loop of generate_idns: draw names until one is new
RECURSIVE UniqueName(_, _, _)
UniqueName(np, fk, names) ==
    LET np1 == Advance(np)
        fk1 == Advance(fk)
        name == CandidateName(np1, fk1)
    IN  IF name \notin names
        THEN [name |-> name, np |-> np1, fake |-> fk1]
        ELSE UniqueName(np1, fk1, names)

RECURSIVE IdnRows(_, _, _, _, _, _)
IdnRows(i, n, sizes, np, fk, idn_names) ==
    IF i > n THEN [rows |-> <<>>, np |-> np, fake |-> fk]
    ELSE LET u == UniqueName(np, fk, idn_names)
             region == Choice(REGIONS, After(u.np, 1))
             row == MakeIdn(i, u.name, sizes[i], region, Choice(GPO_IDS, After(u.np, 2)),
                            Uniform(2000000, 8000000, After(u.np, 3)),
                            Choice(STATES_BY_REGION[region], After(u.np, 4)))
             rest == IdnRows(i + 1, n, sizes, After(u.np, 4), u.fake, idn_names \cup {u.name})
         IN  [rows |-> <<row>> \o rest.rows, np |-> rest.np, fake |-> rest.fake]

generate_idns(n, np, fk) ==
    LET sizes == [i \in 1..n |-> ClipSize(SizeOf(After(np, i)))]
    IN  IdnRows(1, n, sizes, After(np, n), fk, {})

RECURSIVE FacilityRows(_, _, _, _, _, _)
FacilityRows(idns_df, k, j, fac_id, np, fk) ==
    IF k > Len(idns_df) THEN [rows |-> <<>>, np |-> np, fake |-> fk]
    ELSE IF j > idns_df[k].facility_count
    THEN FacilityRows(idns_df, k + 1, 1, fac_id, np, fk)
    ELSE LET idn == idns_df[k]
             fac_type == Choice(<<"Hospital", "ASC", "Clinic">>, After(np, 1))
             city == After(fk, 1)
             row == [facility_id |-> fac_id,
                     idn_id |-> idn.idn_id,
                     name |-> <<idn.name, city, fac_type>>,
                     facility_type |-> fac_type,
                     bed_count |-> IF fac_type = "Hospital" THEN Uniform(50, 800, After(np, 2))
                                   ELSE IF fac_type = "ASC" THEN Uniform(4, 20, After(np, 2))
                                   ELSE 0,
                     state |-> idn.state,
                     region |-> idn.region]
             rest == FacilityRows(idns_df, k, j + 1, fac_id + 1,
                                  IF fac_type = "Clinic" THEN After(np, 1) ELSE After(np, 2), city)
         IN  [rows |-> <<row>> \o rest.rows, np |-> rest.np, fake |-> rest.fake]

generate_facilities_from_second(idns_df, np, fk) == FacilityRows(idns_df, 1, 2, 1, np, fk)

generate_facilities(idns_df, np, fk) == FacilityRows(idns_df, 1, 1, 1, np, fk)

\* the row with cost = list_price * (1 - fraction)
ProductRowCostOfRemainder(prod_id, name, category, list_price, fraction, sku) ==
    [product_id |-> prod_id,
     name |-> name,
     category |-> category,
     list_price |-> list_price,
     cost |-> RoundHalfEven(list_price * (1000 - fraction), 1000),
     sku |-> sku]

\* the row generate_products appends: list_price in cents and fraction, the
\* draw of uniform(0.25, 0.45), in thousandths
ProductRow(prod_id, name, category, list_price, fraction, sku) ==
    [product_id |-> prod_id,
     name |-> name,
     category |-> category,
     list_price |-> list_price,
     cost |-> RoundHalfEven(list_price * fraction, 1000),
     sku |-> sku]

RECURSIVE ProductRows(_, _, _, _, _)
ProductRows(c, k, prod_id, np, fk) ==
    IF c > Len(DEVICE_CATEGORIES) THEN [rows |-> <<>>, np |-> np, fake |-> fk]
    ELSE IF k > Len(DEVICE_CATEGORIES[c].products)
    THEN ProductRows(c + 1, 1, prod_id, np, fk)
    ELSE LET config == DEVICE_CATEGORIES[c]
             list_price == Uniform(config.low, config.high, After(np, 1))
             row == ProductRow(prod_id, config.products[k], config.category, list_price,
                               Uniform(250, 450, After(np, 2)), After(fk, 1))
             rest == ProductRows(c, k + 1, prod_id + 1, After(np, 2), After(fk, 1))
         IN  [rows |-> <<row>> \o rest.rows, np |-> rest.np, fake |-> rest.fake]

generate_products(np, fk) == ProductRows(1, 1, 1, np, fk)

DEAL_STRUCTURES == <<"PV", "DV", "TV", "Access", "All Play">>

\* structure_discount of generate_contracts, in thousandths
StructureDiscount(structure) ==
    CASE structure = "PV" -> 200
      [] structure = "DV" -> 150
      [] structure = "TV" -> 120
      [] structure = "Access" -> 50
      [] structure = "All Play" -> 30

\* size_factor of generate_contracts, in thousandths
SizeFactor(tier) ==
    CASE tier = "Large" -> 80
      [] tier = "Medium" -> 40
      [] tier = "Small" -> 0

\* now = datetime(2025, 1, 15), in days since start_base = datetime(2023, 1, 1)
NOW_DAY == 745

\* np.clip(base_discount, 0.02, 0.40), in thousandths
MIN_DISCOUNT == 20
MAX_DISCOUNT == 400

BaseDiscountNoClip(structure, tier, noise) ==
    StructureDiscount(structure) + SizeFactor(tier) + noise

\* base_discount of generate_contracts, in thousandths; noise is the normal draw
BaseDiscount(structure, tier, noise) ==
    Max(MIN_DISCOUNT,
        Min(StructureDiscount(structure) + SizeFactor(tier) + noise, MAX_DISCOUNT))

\* the status with now a year earlier, datetime(2024, 1, 15)
ContractStatusYearEarlier(start_date, end_date, pick) ==
    IF end_date < NOW_DAY - 366 THEN pick
    ELSE IF start_date > NOW_DAY - 366 THEN "Pending"
    ELSE "Active"

ContractStatusInclusive(start_date, end_date, pick) ==
    IF end_date <= NOW_DAY THEN pick
    ELSE IF start_date > NOW_DAY THEN "Pending"
    ELSE "Active"

\* status of generate_contracts; pick is the choice between Expired and Renewed
ContractStatus(start_date, end_date, pick) ==
    IF end_date < NOW_DAY THEN pick
    ELSE IF start_date > NOW_DAY THEN "Pending"
    ELSE "Active"

\* the row generate_contracts appends for loop index i (1-based)
MakeContract(i, idn, structure, category, start_date, duration_months, share, noise, pick, tenant_id, volume, aks) ==
    [contract_id |-> i,
     tenant_id |-> tenant_id,
     idn_id |-> idn.idn_id,
     gpo_id |-> idn.gpo_id,
     deal_structure |-> structure,
     device_category |-> category,
     start_date |-> start_date,
     end_date |-> start_date + duration_months * 30,
     duration_months |-> duration_months,
     base_discount_pct |-> BaseDiscount(structure, idn.tier, noise),
     market_share_commitment |-> share,
     status |-> ContractStatus(start_date, start_date + duration_months * 30, pick),
     annual_volume_target |-> volume,
     safe_harbor_compliant |-> TRUE,
     aks_risk_flag |-> aks]

\* one iteration of the loop of generate_contracts: the row and the state after it
ContractRow(i, idns_df, np) ==
    LET idn == Choice(idns_df, After(np, 1))
        structure == Choice(DEAL_STRUCTURES, After(np, 2))
        category == Choice(DEVICE_CATEGORIES, After(np, 3)).category
        start_date == Uniform(0, 540, After(np, 4))
        duration_months == Choice(<<12, 24, 36>>, After(np, 5))
        end_date == start_date + duration_months * 30
        np5 == After(np, 5)
        has_share == structure \in {"PV", "DV", "TV"}
        np6 == IF has_share THEN Advance(np5) ELSE np5
        market_share_commitment ==
            CASE structure = "PV" -> Uniform(80, 95, np6)
              [] structure = "DV" -> Uniform(40, 60, np6)
              [] structure = "TV" -> Uniform(25, 35, np6)
              [] OTHER -> 0
        np7 == Advance(np6)
        expired == end_date < NOW_DAY
        np8 == IF expired THEN Advance(np7) ELSE np7
    IN  [row |-> MakeContract(i, idn, structure, category, start_date, duration_months,
                              market_share_commitment, Uniform(-40, 41, np7),
                              Choice(<<"Expired", "Renewed">>, np8),
                              Choice(<<"meddevice_corp", "orthotech_inc">>, After(np8, 1)),
                              Uniform(100, 5000, After(np8, 2)),
                              Choice(<<"Low", "Medium", "High">>, After(np8, 3))),
         np |-> After(np8, 3)]

RECURSIVE ContractRows(_, _, _, _)
ContractRows(i, n, idns_df, np) ==
    IF i > n THEN [rows |-> <<>>, np |-> np]
    ELSE LET c == ContractRow(i, idns_df, np)
             rest == ContractRows(i + 1, n, idns_df, c.np)
         IN  [rows |-> <<c.row>> \o rest.rows, np |-> rest.np]

generate_contracts(idns_df, products_df, n, np) == ContractRows(1, n, idns_df, np)

\* rebate_types of generate_rebate_programs; ranges in thousandths
REBATE_TYPES ==
    <<[type |-> "Volume", low |-> 20, high |-> 50, trigger |-> "units_threshold"],
      [type |-> "Loyalty", low |-> 10, high |-> 30, trigger |-> "market_share_threshold"],
      [type |-> "Bundle", low |-> 10, high |-> 20, trigger |-> "cross_category_purchase"],
      [type |-> "Growth", low |-> 5, high |-> 15, trigger |-> "yoy_volume_increase"]>>

\* the same draw with replace=True: each type drawn independently
SelectedTypesWithReplacement(n_rebates, d) ==
    [t \in 1..n_rebates |-> REBATE_TYPES[((d * t) % Len(REBATE_TYPES)) + 1]]

\* np.random.choice(types, size=n_rebates, replace=False): distinct types from one call
SelectedTypes(n_rebates, d) ==
    [t \in 1..n_rebates |-> REBATE_TYPES[((d + t) % Len(REBATE_TYPES)) + 1]]

RECURSIVE RebateRows(_, _, _, _, _, _)
RebateRows(contracts_df, k, t, selected_types, rebate_id, np) ==
    IF k > Len(contracts_df) THEN [rows |-> <<>>, np |-> np]
    ELSE IF t = 0
    THEN RebateRows(contracts_df, k, 1,
                    SelectedTypes(Choice(<<1, 2, 3>>, After(np, 1)), After(np, 2)),
                    rebate_id, After(np, 2))
    ELSE IF t > Len(selected_types)
    THEN RebateRows(contracts_df, k + 1, 0, <<>>, rebate_id, np)
    ELSE LET config == selected_types[t]
             row == [rebate_id |-> rebate_id,
                     contract_id |-> contracts_df[k].contract_id,
                     rebate_type |-> config.type,
                     rebate_pct |-> Uniform(config.low, config.high, After(np, 1)),
                     trigger_type |-> config.trigger,
                     trigger_threshold |-> Uniform(50, 90, After(np, 2)),
                     orientation |-> Choice(<<"Offensive", "Defensive">>, After(np, 3)),
                     earned |-> Choice(<<TRUE, FALSE>>, After(np, 4))]
             rest == RebateRows(contracts_df, k, t + 1, selected_types, rebate_id + 1,
                                After(np, 4))
         IN  [rows |-> <<row>> \o rest.rows, np |-> rest.np]

generate_rebate_programs(contracts_df, np) == RebateRows(contracts_df, 1, 0, <<>>, 1, np)

\* one iteration of the loop of generate_transactions, its draws taken from np.random
TransactionRow(i, active_contracts, products_df, idns_df, np) ==
    LET contract == Choice(active_contracts, After(np, 1))
        np1 == After(np, 1)
        no_cat == SelectSeq(products_df,
                            LAMBDA x : x.category = contract.device_category) = <<>>
        np2 == IF no_cat THEN Advance(np1) ELSE np1
        cat_products == CatProducts(products_df, contract, (np2 % Len(products_df)) + 1)
        product == Choice(cat_products, After(np2, 1))
        idn == SelectSeq(idns_df, LAMBDA x : x.idn_id = contract.idn_id)[1]
        day == Uniform(0, TxnDelta(contract), After(np2, 2))
        quantity_raw == Uniform(0, 2 * MAX_QUANTITY, After(np2, 3))
        rebate_pct == Uniform(10, 61, After(np2, 4))
    IN  [row |-> MakeTransaction(i, contract, product, idn, rebate_pct, quantity_raw, day),
         np |-> After(np2, 4)]

RECURSIVE TransactionRows(_, _, _, _, _, _)
TransactionRows(i, n, active_contracts, products_df, idns_df, np) ==
    IF i > n THEN [rows |-> <<>>, np |-> np]
    ELSE LET t == TransactionRow(i, active_contracts, products_df, idns_df, np)
             rest == TransactionRows(i + 1, n, active_contracts, products_df, idns_df, t.np)
         IN  [rows |-> <<t.row>> \o rest.rows, np |-> rest.np]

generate_transactions_short(contracts_df, products_df, idns_df, n, np) ==
    TransactionRows(1, n - 1, ActiveContracts(contracts_df), products_df, idns_df, np)

generate_transactions(contracts_df, products_df, idns_df, n, np) ==
    TransactionRows(1, n, ActiveContracts(contracts_df), products_df, idns_df, np)

(***************************************************************************)
(* main(), called by ensure_data_ready or as a script, step by step        *)
(***************************************************************************)

\* how often one process calls main()
MaxCalls == 2

\* `from generators.generate_synthetic_data import main` or `python
\* generate_synthetic_data.py`: the module body, with its two seed calls, runs
\* on the first import only; then main() starts
EnterMain(p, who) ==
    /\ imported' = [imported EXCEPT ![p] = TRUE]
    /\ np_random' = [np_random EXCEPT ![p] = IF imported[p] THEN @ ELSE Seeded]
    /\ fake_random' = [fake_random EXCEPT ![p] = IF imported[p] THEN @ ELSE Seeded]
    /\ gpc' = [gpc EXCEPT ![p] = "generate_idns"]
    /\ caller' = [caller EXCEPT ![p] = who]
    /\ main_calls' = [main_calls EXCEPT ![p] = @ + 1]
    /\ frames' = [frames EXCEPT ![p] = NoFrames]
    /\ UNCHANGED <<outputs, qvars, tvars, lvars, svars>>

\* ensure_data_ready() in a Streamlit server: main() when the file is missing
EnsureCallsMain(p) ==
    /\ gpc[p] = "idle"
    /\ caller[p] # "__main__"
    /\ main_calls[p] < MaxCalls
    /\ ~db_exists
    /\ EnterMain(p, "ensure_data_ready")

\* if __name__ == "__main__": main(), in a fresh interpreter
ScriptCallsMain(p) ==
    /\ gpc[p] = "idle"
    /\ ~imported[p]
    /\ EnterMain(p, "__main__")

\* a step of main() that stores a frame and leaves the streams in state np, fk
MainStep(p, at, next, table, np, fk) ==
    /\ gpc[p] = at
    /\ frames' = [frames EXCEPT ![p] = table]
    /\ np_random' = [np_random EXCEPT ![p] = np]
    /\ fake_random' = [fake_random EXCEPT ![p] = fk]
    /\ gpc' = [gpc EXCEPT ![p] = next]
    /\ UNCHANGED <<imported, caller, main_calls, outputs, qvars, tvars, lvars, svars>>

GenerateIdns(p) ==
    LET g == generate_idns(N_IDNS, np_random[p], fake_random[p])
    IN  MainStep(p, "generate_idns", "generate_facilities",
                 [frames[p] EXCEPT !.idns = g.rows], g.np, g.fake)

GenerateFacilities(p) ==
    LET g == generate_facilities(frames[p].idns, np_random[p], fake_random[p])
    IN  MainStep(p, "generate_facilities", "generate_products",
                 [frames[p] EXCEPT !.facilities = g.rows], g.np, g.fake)

GenerateProducts(p) ==
    LET g == generate_products(np_random[p], fake_random[p])
    IN  MainStep(p, "generate_products", "generate_contracts",
                 [frames[p] EXCEPT !.products = g.rows], g.np, g.fake)

GenerateContracts(p) ==
    LET g == generate_contracts(frames[p].idns, frames[p].products, N_CONTRACTS, np_random[p])
    IN  MainStep(p, "generate_contracts", "generate_rebate_programs",
                 [frames[p] EXCEPT !.contracts = g.rows], g.np, fake_random[p])

GenerateRebatePrograms(p) ==
    LET g == generate_rebate_programs(frames[p].contracts, np_random[p])
    IN  MainStep(p, "generate_rebate_programs", "generate_transactions",
                 [frames[p] EXCEPT !.rebate_programs = g.rows], g.np, fake_random[p])

GenerateTransactions(p) ==
    LET g == generate_transactions(frames[p].contracts, frames[p].products, frames[p].idns,
                                   MaxTxns, np_random[p])
    IN  MainStep(p, "generate_transactions", "save_and_load",
                 [frames[p] EXCEPT !.transactions = g.rows], g.np, fake_random[p])

\* the to_csv calls and load_into_duckdb: the frames become the output tables
SaveAndLoad(p) ==
    /\ gpc[p] = "save_and_load"
    /\ outputs' = [outputs EXCEPT ![p] = frames[p]]
    /\ gpc' = [gpc EXCEPT ![p] = "done"]
    /\ db_exists' = TRUE
    /\ db_rels' = FullDb(p)
    /\ UNCHANGED <<imported, np_random, fake_random, caller, main_calls, frames,
                   writer, pc, removed, observed, qvars, tvars, svars>>

\* main() has no try/except: an exception raised by a to_csv call (a full
\* disk, a directory that cannot be written) leaves main() before the load;
\* st.cache_resource stores nothing, so the server calls ensure_data_ready
\* again on its next run, and a script ends
MainRaises(p) ==
    /\ gpc[p] = "save_and_load"
    /\ gpc' = [gpc EXCEPT ![p] = IF caller[p] = "__main__" THEN "exit" ELSE "idle"]
    /\ frames' = [frames EXCEPT ![p] = NoFrames]
    /\ UNCHANGED <<imported, np_random, fake_random, caller, main_calls, outputs,
                   qvars, tvars, lvars, svars>>

InitGen ==
    /\ NoThreads
    /\ NoGeneration
    /\ NoSession
    /\ NoTables
    /\ \/ db_exists = FALSE /\ db_rels = {}
       \/ db_exists = TRUE /\ db_rels = FullDb(0)
    /\ writer = 0
    /\ pc = [p \in Procs |-> "idle"]
    /\ removed = [p \in Procs |-> {}]
    /\ observed = [p \in Procs |-> [ok |-> FALSE, rels |-> {}]]

NextGen ==
    \E p \in Procs :
        \/ EnsureCallsMain(p)
        \/ ScriptCallsMain(p)
        \/ GenerateIdns(p)
        \/ GenerateFacilities(p)
        \/ GenerateProducts(p)
        \/ GenerateContracts(p)
        \/ GenerateRebatePrograms(p)
        \/ GenerateTransactions(p)
        \/ SaveAndLoad(p)
        \/ MainRaises(p)

SpecGen == InitGen /\ [][NextGen]_vars

(***************************************************************************)
(* Claims about generation                                                 *)
(***************************************************************************)

\* C8: any two completed runs of the generation pipeline, both under the
\* fixed seed 42, have produced identical output tables.
C8_GenerationDeterministic ==
    \A p, q \in Procs :
        gpc[p] = "done" /\ gpc[q] = "done" => outputs[p] = outputs[q]

\* runs that are the first call of main() in their process agree
FirstRunsAgree ==
    \A p, q \in Procs :
        /\ gpc[p] = "done" /\ gpc[q] = "done"
        /\ main_calls[p] = 1 /\ main_calls[q] = 1
        => outputs[p] = outputs[q]

(***************************************************************************)
(* generate_transactions on small and degenerate tables                    *)
(***************************************************************************)

\* a contracts row with the given status and dates (days since 2023-01-01)
DraftContract(id, tenant, idn, category, status, start_date, end_date) ==
    [contract_id |-> id, tenant_id |-> tenant, idn_id |-> idn,
     gpo_id |-> LedgerIdns[idn].gpo_id,
     deal_structure |-> "TV", device_category |-> category,
     start_date |-> start_date, end_date |-> end_date, base_discount_pct |-> 120,
     status |-> status, aks_risk_flag |-> "Low"]

\* more contracts than contracts_df.head(50) keeps, none of them Active or Renewed
ManyExpired ==
    [k \in 1..(HEAD_ROWS + 1) |->
        DraftContract(k, IF k % 2 = 0 THEN "meddevice_corp" ELSE "orthotech_inc", 1 + (k % 2),
                      "Cardiovascular", IF k % 3 = 0 THEN "Pending" ELSE "Expired", 0, 360)]

\* contracts tables: empty; Active with Expired or Renewed; none Active or
\* Renewed; two tenants on one IDN; an end date before the start date
ContractTables ==
    {<<>>,
     <<LedgerContract1(100, "Low"), LedgerContract2("Expired")>>,
     <<LedgerContract1(100, "Low"), LedgerContract2("Renewed")>>,
     <<DraftContract(1, "meddevice_corp", 1, "Cardiovascular", "Expired", 0, 360),
       DraftContract(2, "orthotech_inc", 2, "Consumables", "Pending", 800, 1160)>>,
     <<DraftContract(1, "meddevice_corp", 1, "Cardiovascular", "Active", 400, 760),
       DraftContract(2, "orthotech_inc", 1, "Consumables", "Renewed", 200, 170)>>}

\* products tables: empty; every category of the contracts; no Consumables
ProductTables ==
    {<<>>, LedgerProducts, SubSeq(LedgerProducts, 1, 2)}

InitTxn ==
    /\ NoThreads
    /\ NoGeneration
    /\ NoSession
    /\ LoadedWarehouse
    /\ idns = LedgerIdns
    /\ \/ contracts \in ContractTables /\ products \in ProductTables
       \/ contracts = ManyExpired /\ products = SubSeq(LedgerProducts, 1, 1)
    /\ transactions = <<>>
    /\ txn_error = "none"

\* n of generate_transactions in these runs
SmallRun == 1

NextTxn ==
    \/ Len(transactions) < SmallRun /\ NextLedger
    \/ GenerateTransactionRaises

SpecTxn == InitTxn /\ [][NextTxn]_vars

(***************************************************************************)
(* Claims about generate_transactions                                      *)
(***************************************************************************)

\* C11: generate_transactions raises no error, whatever the tables: no Active
\* or Renewed contract, a category without products, an empty contracts or
\* products table, a contract whose end date is not after its start date.
C11_GenerationNeverFails == txn_error = "none"

HasActive == \E k \in 1..Len(contracts) : contracts[k].status \in {"Active", "Renewed"}

\* C12: a transaction names an Active or Renewed contract whenever the table
\* has one; when it has none, the contract is one of the first 50 rows.
C12_ActiveContractSampling ==
    \A k \in 1..Len(transactions) :
        LET c == ContractById(transactions[k].contract_id)
        IN  /\ HasActive => c.status \in {"Active", "Renewed"}
            /\ ~HasActive => \E j \in 1..Min(HEAD_ROWS, Len(contracts)) : contracts[j] = c

\* C12 witness: a transaction of a table with more than 50 contracts, none of
\* them Active or Renewed
C12_Witness ==
    /\ transactions # <<>>
    /\ ~HasActive
    /\ Len(contracts) > HEAD_ROWS

\* C13: a transaction carries the tenant, IDN and GPO of the contract it
\* names, and every transaction that v_contract_risk joins to a contract has
\* that contract's tenant.
C13_TenantCopiedFromContract ==
    /\ \A k \in 1..Len(transactions) :
          LET t == transactions[k]
              c == ContractById(t.contract_id)
          IN  t.tenant_id = c.tenant_id /\ t.idn_id = c.idn_id /\ t.gpo_id = c.gpo_id
    /\ \A j \in 1..Len(contracts) :
          LET ts == JoinedTransactions(contracts[j], transactions)
          IN  \A k \in 1..Len(ts) : ts[k].tenant_id = contracts[j].tenant_id

\* C13 witness: a transaction on an IDN that has contracts of both tenants
C13_Witness ==
    \E k \in 1..Len(transactions), i, j \in 1..Len(contracts) :
        /\ contracts[i].idn_id = transactions[k].idn_id
        /\ contracts[j].idn_id = transactions[k].idn_id
        /\ contracts[i].tenant_id # contracts[j].tenant_id

HasCategory(cat) == \E k \in 1..Len(products) : products[k].category = cat

\* C14: the product of a transaction has the contract's device category
\* whenever the catalogue has a product of that category; otherwise it is
\* some product of the catalogue.
C14_ProductOfContractCategory ==
    \A k \in 1..Len(transactions) :
        LET t == transactions[k]
            c == ContractById(t.contract_id)
        IN  /\ \E j \in 1..Len(products) : products[j].product_id = t.product_id
            /\ HasCategory(c.device_category) =>
                  ProductById(t.product_id).category = c.device_category

\* C14 witness: both cases have happened, a product of the contract's category
\* and, for a category without products, a product of another category
C14_Witness ==
    \E k \in 1..Len(transactions) :
        LET c == ContractById(transactions[k].contract_id)
        IN  /\ ~HasCategory(c.device_category)
            /\ ProductById(transactions[k].product_id).category # c.device_category

\* C15: the transaction date lies in [start_date, end_date) of its contract,
\* and in [start_date, start_date + 365 days) when end_date is not after
\* start_date.
C15_DateWithinContract ==
    \A k \in 1..Len(transactions) :
        LET t == transactions[k]
            c == ContractById(t.contract_id)
        IN  IF c.end_date > c.start_date
            THEN c.start_date <= t.transaction_date /\ t.transaction_date < c.end_date
            ELSE /\ c.start_date <= t.transaction_date
                 /\ t.transaction_date < c.start_date + 365

\* C15 witness: a contract that ends before it starts, with a transaction
\* dated late in the substituted year
C15_Witness ==
    \E k \in 1..Len(transactions) :
        LET c == ContractById(transactions[k].contract_id)
        IN  /\ c.end_date < c.start_date
            /\ transactions[k].transaction_date > c.start_date + 300

(***************************************************************************)
(* generate_idns and generate_contracts, row by row, on chosen draws        *)
(***************************************************************************)

\* rows per table in these runs
MaxIdnRows == 1
MaxContractRows == 1

\* int(lognormal(2.5, 0.8)): values around the clip limits and the tier limits
SizeDraws == {0, 1, 2, 3, 10, 11, 30, 31, 180, 181}

\* One iteration of the loop of generate_idns; the name is new by the loop's retry
GenerateIdn(raw_size, region, gpo_id) ==
    /\ contracts = <<>>
    /\ Len(idns) < MaxIdnRows
    /\ idns' = Append(idns, MakeIdn(Len(idns) + 1, <<"city", Len(idns) + 1>>,
                                   ClipSize(raw_size), region, gpo_id, 2000000,
                                   STATES_BY_REGION[region][1]))
    /\ UNCHANGED <<products, contracts, transactions, txn_error, nott>>

\* the joint draws of one iteration of generate_contracts: start dates and
\* durations on both sides of now, the normal draw far out in both tails
ContractDraws ==
    {[structure |-> "PV", start_date |-> 0, duration_months |-> 12, share |-> 80,
      noise |-> 400, pick |-> "Expired"],
     [structure |-> "PV", start_date |-> 0, duration_months |-> 12, share |-> 94,
      noise |-> 121, pick |-> "Renewed"],
     [structure |-> "DV", start_date |-> 384, duration_months |-> 12, share |-> 40,
      noise |-> 0, pick |-> "Renewed"],
     [structure |-> "DV", start_date |-> 385, duration_months |-> 12, share |-> 59,
      noise |-> -20, pick |-> "Expired"],
     [structure |-> "TV", start_date |-> 386, duration_months |-> 12, share |-> 25,
      noise |-> 20, pick |-> "Renewed"],
     [structure |-> "TV", start_date |-> 24, duration_months |-> 24, share |-> 34,
      noise |-> -400, pick |-> "Expired"],
     [structure |-> "Access", start_date |-> 25, duration_months |-> 24, share |-> 0,
      noise |-> -31, pick |-> "Renewed"],
     [structure |-> "Access", start_date |-> 539, duration_months |-> 36, share |-> 0,
      noise |-> -30, pick |-> "Expired"],
     [structure |-> "All Play", start_date |-> 539, duration_months |-> 12, share |-> 0,
      noise |-> -10, pick |-> "Renewed"],
     [structure |-> "All Play", start_date |-> 0, duration_months |-> 36, share |-> 0,
      noise |-> -11, pick |-> "Expired"],
     [structure |-> "PV", start_date |-> 300, duration_months |-> 24, share |-> 90,
      noise |-> 120, pick |-> "Renewed"],
     [structure |-> "DV", start_date |-> 100, duration_months |-> 12, share |-> 50,
      noise |-> 250, pick |-> "Expired"]}

\* One iteration of the loop of generate_contracts
GenerateContract(ii, draw, tenant_id, aks) ==
    /\ ii \in 1..Len(idns)
    /\ Len(contracts) < MaxContractRows
    /\ contracts' = Append(contracts,
          MakeContract(Len(contracts) + 1, idns[ii], draw.structure, "Cardiovascular",
                       draw.start_date, draw.duration_months, draw.share, draw.noise,
                       draw.pick, tenant_id, 100, aks))
    /\ UNCHANGED <<idns, products, transactions, txn_error, nott>>

InitTables ==
    /\ NoThreads
    /\ NoGeneration
    /\ NoSession
    /\ NoTables
    /\ LoadedWarehouse

NextTables ==
    \/ \E raw_size \in SizeDraws : GenerateIdn(raw_size, "West", "GPO-001")
    \/ \E ii \in 1..Len(idns), draw \in ContractDraws, tenant_id \in TENANT_IDS :
          GenerateContract(ii, draw, tenant_id, "Low")

SpecTables == InitTables /\ [][NextTables]_vars

(***************************************************************************)
(* Claims about generate_idns and generate_contracts                       *)
(***************************************************************************)

\* C16: status follows from the dates and the reference date 2025-01-15:
\* Pending iff the contract starts after it, Expired or Renewed iff the
\* contract ends before it, Active otherwise.
C16_StatusFromDates ==
    \A k \in 1..Len(contracts) :
        LET c == contracts[k]
        IN  /\ c.status = "Pending" <=> c.start_date > NOW_DAY
            /\ c.status \in {"Expired", "Renewed"} <=> c.end_date < NOW_DAY
            /\ c.status = "Active" <=> c.start_date <= NOW_DAY /\ c.end_date >= NOW_DAY
            /\ c.status \in {"Pending", "Expired", "Renewed", "Active"}

\* C16 witness: a contract that ends on the reference date itself is Active
C16_Witness ==
    \E k \in 1..Len(contracts) :
        contracts[k].end_date = NOW_DAY /\ contracts[k].status = "Active"

\* C30: no contract generate_contracts makes is Pending: its start_date is
\* one of the 540 days from 2023-01-01, each before the reference date
\* 2025-01-15, and its status is Active, Expired or Renewed.
C30_NoPendingContract ==
    \A k \in 1..Len(contracts) :
        /\ contracts[k].start_date \in 0..539
        /\ contracts[k].start_date < NOW_DAY
        /\ contracts[k].status # "Pending"
        /\ contracts[k].status \in {"Active", "Expired", "Renewed"}

\* C30 witness: a contract that starts on the last day randint(0, 540) draws
\* and has not ended on the reference date
C30_Witness ==
    \E k \in 1..Len(contracts) :
        /\ contracts[k].start_date = 539
        /\ contracts[k].end_date > NOW_DAY
        /\ contracts[k].status = "Active"

\* C17: every contract has 0.02 <= base_discount_pct <= 0.40.
C17_DiscountBound ==
    \A k \in 1..Len(contracts) :
        /\ MIN_DISCOUNT <= contracts[k].base_discount_pct
        /\ contracts[k].base_discount_pct <= MAX_DISCOUNT

\* C17 witness: a contract of a Large IDN whose structure and size discount
\* with the noise exceed 0.40
C17_Witness ==
    \E k \in 1..Len(contracts), j \in 1..Len(idns) :
        /\ idns[j].idn_id = contracts[k].idn_id
        /\ idns[j].tier = "Large"
        /\ contracts[k].deal_structure = "PV"
        /\ contracts[k].base_discount_pct = MAX_DISCOUNT

\* C18: tier is Large iff facility_count > 30, Medium iff 10 < facility_count
\* <= 30, Small otherwise, and facility_count lies in [2, 180].
C18_TierFromFacilityCount ==
    \A k \in 1..Len(idns) :
        LET n == idns[k].facility_count
        IN  /\ MIN_SIZE <= n /\ n <= MAX_SIZE
            /\ idns[k].tier = "Large" <=> n > 30
            /\ idns[k].tier = "Medium" <=> (10 < n /\ n <= 30)
            /\ idns[k].tier = "Small" <=> n <= 10

\* C18 witness: an IDN with exactly 30 facilities is Medium
C18_Witness ==
    \E k \in 1..Len(idns) : idns[k].facility_count = 30 /\ idns[k].tier = "Medium"

(***************************************************************************)
(* v_price_waterfall over a transactions table, and claims about main()    *)
(***************************************************************************)

\* one group of v_price_waterfall: the transactions ts of one tenant and category
WaterfallRow(tenant_id, device_category, ts) ==
    [tenant_id |-> tenant_id,
     device_category |-> device_category,
     avg_list_price |-> RoundHalfAway(SumSeq(Map(ts, LAMBDA t : t.list_price)), Len(ts)),
     avg_contract_discount |->
         RoundHalfAway(SumSeq(Map(ts, LAMBDA t : t.list_price - t.invoice_price)), Len(ts)),
     avg_gpo_fee |-> RoundHalfAway(SumSeq(Map(ts, LAMBDA t : t.gpo_admin_fee)), Len(ts)),
     avg_rebate |-> RoundHalfAway(SumSeq(Map(ts, LAMBDA t : t.rebate_amount)), Len(ts)),
     avg_lowest_net |-> RoundHalfAway(SumSeq(Map(ts, LAMBDA t : t.lowest_net_price)), Len(ts)),
     avg_margin |-> RoundHalfAway(SumSeq(Map(ts, LAMBDA t : t.margin)), Len(ts)),
     avg_cost |-> RoundHalfAway(SumSeq(Map(ts, LAMBDA t : t.unit_cost)), Len(ts))]

\* FROM transactions GROUP BY tenant_id, device_category
v_price_waterfall(txns) ==
    {WaterfallRow(g[1], g[2],
                  SelectSeq(txns, LAMBDA t : t.tenant_id = g[1] /\ t.device_category = g[2])) :
        g \in {<<txns[k].tenant_id, txns[k].device_category>> : k \in 1..Len(txns)}}

\* one call of main() in process 1, entered with the generators in any state
InitRun ==
    /\ NoThreads
    /\ NoSession
    /\ NoTables
    /\ LoadedWarehouse
    /\ imported = [p \in Procs |-> p = 1]
    /\ np_random \in [Procs -> 0..(RNG_MODULUS - 1)]
    /\ fake_random \in [Procs -> 0..(RNG_MODULUS - 1)]
    /\ \A p \in Procs : p # 1 => np_random[p] = 0 /\ fake_random[p] = 0
    /\ gpc = [p \in Procs |-> IF p = 1 THEN "generate_idns" ELSE "idle"]
    /\ caller = [p \in Procs |-> IF p = 1 THEN "__main__" ELSE "none"]
    /\ main_calls = [p \in Procs |-> IF p = 1 THEN 1 ELSE 0]
    /\ frames = [p \in Procs |-> NoFrames]
    /\ outputs = [p \in Procs |-> NoFrames]

NextRun ==
    \E p \in Procs :
        \/ GenerateIdns(p)
        \/ GenerateFacilities(p)
        \/ GenerateProducts(p)
        \/ GenerateContracts(p)
        \/ GenerateRebatePrograms(p)
        \/ GenerateTransactions(p)
        \/ SaveAndLoad(p)

SpecRun == InitRun /\ [][NextRun]_vars

\* main() of process p is past generate_facilities / generate_transactions
FacilitiesMade(p) ==
    gpc[p] \in {"generate_products", "generate_contracts", "generate_rebate_programs",
                "generate_transactions", "save_and_load", "done"}

TransactionsMade(p) == gpc[p] \in {"save_and_load", "done"}

\* C19: generate_facilities gives every IDN exactly facility_count rows, and
\* every facility row names an IDN of the table and has its state and region.
C19_FacilityCount ==
    \A p \in Procs :
        FacilitiesMade(p) =>
            LET is == frames[p].idns
                fs == frames[p].facilities
            IN  /\ \A k \in 1..Len(is) :
                      Cardinality({j \in 1..Len(fs) : fs[j].idn_id = is[k].idn_id})
                          = is[k].facility_count
                /\ \A j \in 1..Len(fs) :
                      \E k \in 1..Len(is) :
                          /\ is[k].idn_id = fs[j].idn_id
                          /\ is[k].state = fs[j].state
                          /\ is[k].region = fs[j].region

\* C19 witness: facilities made for IDNs of different sizes
C19_Witness ==
    \E p \in Procs :
        /\ FacilitiesMade(p)
        /\ \E k, j \in 1..Len(frames[p].idns) :
              frames[p].idns[k].facility_count # frames[p].idns[j].facility_count
        /\ Len(frames[p].facilities) > Len(frames[p].idns) * MIN_SIZE

\* C20: generate_transactions(n) returns n transactions with distinct ids and
\* tenants of the fixed tenant set, and v_price_waterfall has exactly one row
\* for each (tenant_id, device_category) pair of the transactions.
C20_EndToEnd ==
    \A p \in Procs :
        TransactionsMade(p) =>
            LET ts == frames[p].transactions
                pairs == {<<ts[k].tenant_id, ts[k].device_category>> : k \in 1..Len(ts)}
                view == v_price_waterfall(ts)
            IN  /\ Len(ts) = MaxTxns
                /\ \A j, k \in 1..Len(ts) :
                      j # k => ts[j].transaction_id # ts[k].transaction_id
                /\ \A k \in 1..Len(ts) : ts[k].tenant_id \in TENANT_IDS
                /\ Cardinality(view) = Cardinality(pairs)
                /\ \A g \in pairs :
                      Cardinality({r \in view : r.tenant_id = g[1]
                                                 /\ r.device_category = g[2]}) = 1

\* C20 witness: a completed run whose transactions span two groups
C20_Witness ==
    \E p \in Procs :
        /\ gpc[p] = "done"
        /\ Cardinality(v_price_waterfall(outputs[p].transactions)) >= 2

(***************************************************************************)
(* Claims about generate_rebate_programs and generate_idns                 *)
(***************************************************************************)

\* main() of process p is past generate_rebate_programs / generate_idns
RebatesMade(p) == gpc[p] \in {"generate_transactions", "save_and_load", "done"}

IdnsMade(p) == gpc[p] # "idle" /\ gpc[p] # "generate_idns"

\* C21: every contract has between 1 and 3 rebate programs, the rebate types
\* of one contract are pairwise distinct members of the four-type catalog, and
\* every rebate program names a contract of the contracts table.
C21_RebatesPerContract ==
    \A p \in Procs :
        RebatesMade(p) =>
            LET cs == frames[p].contracts
                rs == frames[p].rebate_programs
            IN  /\ \A k \in 1..Len(cs) :
                      Cardinality({j \in 1..Len(rs) : rs[j].contract_id = cs[k].contract_id})
                          \in 1..3
                /\ \A i, j \in 1..Len(rs) :
                      i # j /\ rs[i].contract_id = rs[j].contract_id
                          => rs[i].rebate_type # rs[j].rebate_type
                /\ \A j \in 1..Len(rs) :
                      /\ rs[j].rebate_type \in {"Volume", "Loyalty", "Bundle", "Growth"}
                      /\ \E k \in 1..Len(cs) : cs[k].contract_id = rs[j].contract_id

\* C21 witness: rebate programs made, one contract with three of them and
\* another with fewer
C21_Witness ==
    \E p \in Procs :
        /\ RebatesMade(p)
        /\ \E k, m \in 1..Len(frames[p].contracts) :
              LET rs == frames[p].rebate_programs
                  n(c) == Cardinality({j \in 1..Len(rs) :
                                          rs[j].contract_id = frames[p].contracts[c].contract_id})
              IN  n(k) = 3 /\ n(m) < 3

\* C22: generate_idns(n) returns exactly n IDNs with pairwise distinct names
\* and pairwise distinct idn_ids, also when a candidate name collided with a
\* name already used and was drawn again.
C22_IdnNamesUnique ==
    \A p \in Procs :
        IdnsMade(p) =>
            LET is == frames[p].idns
            IN  /\ Len(is) = N_IDNS
                /\ \A j, k \in 1..Len(is) :
                      j # k => is[j].name # is[k].name /\ is[j].idn_id # is[k].idn_id

\* C22 witness: generate_idns has just returned, and it drew more names than
\* it emitted rows (a candidate collided and was redrawn)
C22_Witness ==
    \E p \in Procs :
        /\ gpc[p] = "generate_facilities"
        /\ \E np0, fk0 \in 0..(RNG_MODULUS - 1) :
              LET g == generate_idns(N_IDNS, np0, fk0)
              IN  /\ g.rows = frames[p].idns
                  /\ g.np = np_random[p]
                  /\ g.fake = fake_random[p]
                  /\ g.fake # After(fk0, N_IDNS)

(***************************************************************************)
(* Claims about ensure_data_ready                                          *)
(***************************************************************************)

\* C23: ensure_data_ready calls main() only when the database file is
\* missing, and within one process it calls main() at most once, however
\* many script runs and sessions call ensure_data_ready.
C23_GeneratesOnlyOnMissingAndOnce ==
    [][\A p \in Procs :
          caller'[p] = "ensure_data_ready" /\ main_calls'[p] # main_calls[p]
              => ~db_exists /\ main_calls'[p] <= 1]_vars

(***************************************************************************)
(* The Streamlit server: session threads run app.py, which starts the      *)
(* Vanna warm-up; the warm-up thread runs the cached setup_vanna           *)
(***************************************************************************)

\* what the rest of the model leaves alone
nots == <<qvars, tvars, lvars, gvars>>

\* One step of start_vanna_warmup_thread() in the script thread of session s.
\* The test of the flag (line 28), the assignment (line 30) and
\* threading.Thread(...).start() (lines 38-39) are separate steps: the function
\* holds no lock, and another session's script thread may run between them.
start_vanna_warmup_thread(s) ==
    /\ \/ /\ spc[s] = "idle"
          /\ _warmup_thread_started
          /\ UNCHANGED <<spc, _warmup_thread_started, wpc>>
       \/ /\ spc[s] = "idle"
          /\ ~_warmup_thread_started
          /\ spc' = [spc EXCEPT ![s] = "tested"]
          /\ UNCHANGED <<_warmup_thread_started, wpc>>
       \/ /\ spc[s] = "tested"
          /\ _warmup_thread_started' = TRUE
          /\ spc' = [spc EXCEPT ![s] = "flagged"]
          /\ UNCHANGED wpc
       \/ /\ spc[s] = "flagged"
          /\ wpc' = [wpc EXCEPT ![s] = "setup_vanna"]
          /\ spc' = [spc EXCEPT ![s] = "idle"]
          /\ UNCHANGED _warmup_thread_started
    /\ UNCHANGED <<_vanna_warmup_done, outcome, vanna_cache, cvars, chat_history, nots>>

\* the ways the try block of setup_vanna ends: return vn, the return for an
\* empty API key, except ImportError, except Exception
SetupOutcomes == {"success", "missing_key", "ImportError", "Exception"}

\* in the except branches the function is left without the finally clause
setup_vanna_finally_on_return_only(s) ==
    /\ \/ /\ wpc[s] = "setup_vanna"
          /\ IF vanna_cache # "none"
             THEN wpc' = [wpc EXCEPT ![s] = "finished"]
             ELSE /\ \A o \in Sessions : wpc[o] \notin {"try", "finally", "return"}
                  /\ wpc' = [wpc EXCEPT ![s] = "try"]
          /\ UNCHANGED <<_vanna_warmup_done, outcome, vanna_cache>>
       \/ /\ wpc[s] = "try"
          /\ \E how \in SetupOutcomes :
                /\ outcome' = [outcome EXCEPT ![s] = how]
                /\ wpc' = [wpc EXCEPT ![s] =
                      IF how \in {"ImportError", "Exception"} THEN "return" ELSE "finally"]
          /\ UNCHANGED <<_vanna_warmup_done, vanna_cache>>
       \/ /\ wpc[s] = "finally"
          /\ _vanna_warmup_done' = TRUE
          /\ wpc' = [wpc EXCEPT ![s] = "return"]
          /\ UNCHANGED <<outcome, vanna_cache>>
       \/ /\ wpc[s] = "return"
          /\ vanna_cache' = outcome[s]
          /\ wpc' = [wpc EXCEPT ![s] = "finished"]
          /\ UNCHANGED <<_vanna_warmup_done, outcome>>
    /\ UNCHANGED <<_warmup_thread_started, spc, cvars, chat_history, nots>>

\* One step of setup_vanna() in the warm-up thread that session s started.
\* @st.cache_resource: a stored result is returned without running the body,
\* and one thread at a time computes.  The body: the try block (lines 106-232)
\* ends in one of SetupOutcomes, each of them a return statement; the finally
\* clause (lines 243-244) sets _vanna_warmup_done; then the function returns
\* and the wrapper stores the result.
setup_vanna(s) ==
    /\ \/ /\ wpc[s] = "setup_vanna"
          /\ IF vanna_cache # "none"
             THEN wpc' = [wpc EXCEPT ![s] = "finished"]
             ELSE /\ \A o \in Sessions : wpc[o] \notin {"try", "finally", "return"}
                  /\ wpc' = [wpc EXCEPT ![s] = "try"]
          /\ UNCHANGED <<_vanna_warmup_done, outcome, vanna_cache>>
       \/ /\ wpc[s] = "try"
          /\ \E how \in SetupOutcomes :
                outcome' = [outcome EXCEPT ![s] = how]
          /\ wpc' = [wpc EXCEPT ![s] = "finally"]
          /\ UNCHANGED <<_vanna_warmup_done, vanna_cache>>
       \/ /\ wpc[s] = "finally"
          /\ _vanna_warmup_done' = TRUE
          /\ wpc' = [wpc EXCEPT ![s] = "return"]
          /\ UNCHANGED <<outcome, vanna_cache>>
       \/ /\ wpc[s] = "return"
          /\ vanna_cache' = outcome[s]
          /\ wpc' = [wpc EXCEPT ![s] = "finished"]
          /\ UNCHANGED <<_vanna_warmup_done, outcome>>
    /\ UNCHANGED <<_warmup_thread_started, spc, cvars, chat_history, nots>>

InitWarmup ==
    /\ NoThreads
    /\ NoGeneration
    /\ NoSession
    /\ NoTables
    /\ LoadedWarehouse

NextWarmup ==
    \E s \in Sessions :
        \/ start_vanna_warmup_thread(s)
        \/ setup_vanna(s)

SpecWarmup == InitWarmup /\ [][NextWarmup]_vars

\* a script thread inside start_vanna_warmup_thread and a started warm-up
\* thread are scheduled again, and the calls of the try block return or raise
SpecWarmupFair ==
    /\ SpecWarmup
    /\ \A s \in Sessions :
          /\ WF_vars(spc[s] # "idle" /\ start_vanna_warmup_thread(s))
          /\ WF_vars(setup_vanna(s))

(***************************************************************************)
(* Claims about the warm-up                                                *)
(***************************************************************************)

\* C24: however many session threads call start_vanna_warmup_thread, and
\* however their calls interleave, at most one warm-up thread is started.
C24_AtMostOneWarmupThread ==
    Cardinality({s \in Sessions : wpc[s] # "none"}) <= 1

\* C25: once start_vanna_warmup_thread has been called, _vanna_warmup_done
\* eventually becomes true, whichever way the try block of setup_vanna ends;
\* once true it stays true; and it is not true before the try block of some
\* setup_vanna call has ended.
C25_WarmupDoneEventually ==
    /\ [](_vanna_warmup_done => \E s \in Sessions : outcome[s] # "none")
    /\ [][_vanna_warmup_done => _vanna_warmup_done']_vars
    /\ \A s \in Sessions : (spc[s] # "idle") ~> _vanna_warmup_done

\* C25 witness: the flag is set after a try block that ended in an exception
C25_Witness ==
    /\ _vanna_warmup_done
    /\ \E s \in Sessions : outcome[s] = "Exception" /\ wpc[s] = "finished"

(***************************************************************************)
(* One execution of query / query_params / get_kpi / get_kpi_params        *)
(***************************************************************************)

\* the four functions of data_loader.py with the same body: get_connection(),
\* try: execute and fetch, except: log and raise, finally: con.close()
QUERY_FNS == {"query", "query_params", "get_kpi", "get_kpi_params"}

\* the connection is closed only on the path that returns a result
ExecuteQueryCloseOnReturn(s) ==
    /\ \/ /\ qpc[s] = "idle"
          /\ \E fn \in QUERY_FNS :
                IF db_exists /\ writer = 0
                THEN /\ conns' = conns \cup {s}
                     /\ qpc' = [qpc EXCEPT ![s] = "try"]
                     /\ qout' = [qout EXCEPT ![s] =
                           [fn |-> fn, opened |-> 1, sql |-> "none", result |-> "none"]]
                ELSE /\ qout' = [qout EXCEPT ![s] =
                           [fn |-> fn, opened |-> 0, sql |-> "none", result |-> "raised"]]
                     /\ UNCHANGED <<conns, qpc>>
       \/ /\ qpc[s] = "try"
          /\ \E ok \in BOOLEAN :
                /\ qpc' = [qpc EXCEPT ![s] = IF ok THEN "return" ELSE "except"]
                /\ qout' = [qout EXCEPT ![s].sql = IF ok THEN "ok" ELSE "failed"]
          /\ UNCHANGED conns
       \/ /\ qpc[s] = "except"
          /\ qpc' = [qpc EXCEPT ![s] = "raise"]
          /\ UNCHANGED <<conns, qout>>
       \/ /\ qpc[s] \in {"return", "raise"}
          /\ conns' = IF qpc[s] = "return" THEN conns \ {s} ELSE conns
          /\ qout' = [qout EXCEPT ![s].result = IF qpc[s] = "return" THEN "returned" ELSE "raised"]
          /\ qpc' = [qpc EXCEPT ![s] = "idle"]
    /\ UNCHANGED <<wvars, chat_history, nots>>

\* One step of an execution in the script thread of session s (a cache miss
\* of st.cache_data).  get_connection() is called before the try statement
\* (line 44): duckdb.connect(DB_PATH, read_only=True) raises when the file is
\* missing or a writer holds it, and then no connection was opened.  In the
\* try block con.execute(...).fetchdf() / fetchone() returns or raises; the
\* except clause logs and re-raises; the finally clause closes the connection
\* on both paths.
ExecuteQuery(s) ==
    /\ \/ /\ qpc[s] = "idle"
          /\ \E fn \in QUERY_FNS :
                IF db_exists /\ writer = 0
                THEN /\ conns' = conns \cup {s}
                     /\ qpc' = [qpc EXCEPT ![s] = "try"]
                     /\ qout' = [qout EXCEPT ![s] =
                           [fn |-> fn, opened |-> 1, sql |-> "none", result |-> "none"]]
                ELSE /\ qout' = [qout EXCEPT ![s] =
                           [fn |-> fn, opened |-> 0, sql |-> "none", result |-> "raised"]]
                     /\ UNCHANGED <<conns, qpc>>
       \/ /\ qpc[s] = "try"
          /\ \E ok \in BOOLEAN :
                /\ qpc' = [qpc EXCEPT ![s] = IF ok THEN "return" ELSE "except"]
                /\ qout' = [qout EXCEPT ![s].sql = IF ok THEN "ok" ELSE "failed"]
          /\ UNCHANGED conns
       \/ /\ qpc[s] = "except"
          /\ qpc' = [qpc EXCEPT ![s] = "raise"]
          /\ UNCHANGED <<conns, qout>>
       \/ /\ qpc[s] \in {"return", "raise"}
          /\ conns' = conns \ {s}
          /\ qout' = [qout EXCEPT ![s].result = IF qpc[s] = "return" THEN "returned" ELSE "raised"]
          /\ qpc' = [qpc EXCEPT ![s] = "idle"]
    /\ UNCHANGED <<wvars, chat_history, nots>>

\* a server whose database file is there, or is missing
InitConn ==
    /\ NoThreads
    /\ NoGeneration
    /\ NoSession
    /\ NoTables
    /\ \/ db_exists = TRUE /\ db_rels = FullDb(0)
       \/ db_exists = FALSE /\ db_rels = {}
    /\ writer = 0
    /\ pc = [p \in Procs |-> "idle"]
    /\ removed = [p \in Procs |-> {}]
    /\ observed = [p \in Procs |-> [ok |-> FALSE, rels |-> {}]]

NextConn == \E s \in Sessions : ExecuteQuery(s)

SpecConn == InitConn /\ [][NextConn]_vars

\* C26: an execution that got its connection opened exactly one, runs the SQL
\* with it and has closed it when it returns or raises; it raises exactly
\* when the SQL failed and returns a result exactly when the SQL succeeded;
\* while no execution is in progress no connection is open.
C26_ConnectionsClosed ==
    /\ \A s \in Sessions :
          /\ (s \in conns) = (qpc[s] # "idle")
          /\ qout[s].opened <= 1
          /\ qout[s].sql # "none" => qout[s].opened = 1
          /\ qpc[s] = "idle" /\ qout[s].sql = "failed" => qout[s].result = "raised"
          /\ qpc[s] = "idle" /\ qout[s].sql = "ok" => qout[s].result = "returned"
    /\ (\A s \in Sessions : qpc[s] = "idle") => conns = {}

\* C26 witness: one execution has raised after its SQL failed, another has
\* returned a result, and no connection is open
C26_Witness ==
    /\ conns = {}
    /\ \E s, o \in Sessions :
          /\ qpc[s] = "idle" /\ qout[s].sql = "failed" /\ qout[s].result = "raised"
          /\ qpc[o] = "idle" /\ qout[o].sql = "ok" /\ qout[o].result = "returned"

(***************************************************************************)
(* The AI assistant: inject_tenant_filter and the chat handler             *)
(***************************************************************************)

\* pages/04_ai_assistant.py: the relations that have a tenant_id column
TENANT_SCOPED ==
    {"transactions", "contracts", "v_portfolio_summary", "v_price_waterfall",
     "v_customer_performance", "v_monthly_trends", "v_contract_risk"}

\* more tokens of SQL text: SELECT ... FROM rel, JOIN rel ON ..., a predicate
\* col IN (SELECT col FROM rel), and the keywords the function looks for
From(rel) == [kind |-> "FROM", col |-> rel, vals |-> {}]
Join(rel) == [kind |-> "JOIN", col |-> rel, vals |-> {}]
InSelect(col, rel) == [kind |-> "IN_SELECT", col |-> col, vals |-> {rel}]
where == Kw("where")
OR == Kw("OR")
GROUP_BY == Kw("GROUP BY")
ORDER_BY == Kw("ORDER BY")
LIMIT == Kw("LIMIT 10")
SEMICOLON == Kw(";")

\* the position of the first token of one of the kinds, or 0
FirstIndex(s, kinds) ==
    IF \E k \in 1..Len(s) : s[k].kind \in kinds
    THEN CHOOSE k \in 1..Len(s) :
            s[k].kind \in kinds /\ \A j \in 1..(k - 1) : s[j].kind \notin kinds
    ELSE 0

\* any(re.search(rf"\b{t}\b", sql_upper) ...): a scoped relation is named
ReferencesScoped(sql) ==
    \E k \in 1..Len(sql) : sql[k].col \in TENANT_SCOPED \/ sql[k].vals \cap TENANT_SCOPED # {}

\* sql.rstrip().rstrip(";")
RECURSIVE StripSemicolon(_)
StripSemicolon(sql) ==
    IF sql # <<>> /\ sql[Len(sql)] = SEMICOLON
    THEN StripSemicolon(SubSeq(sql, 1, Len(sql) - 1))
    ELSE sql

\* inject_tenant_filter(sql, tenant_id).  re.search(r"\bWHERE\b", sql,
\* re.IGNORECASE) finds WHERE in any case; re.sub(r"(\bWHERE\b)", ..., count=1)
\* is case-sensitive and replaces the first upper-case WHERE only.  Without a
\* WHERE the condition goes before the first match of GROUP BY, else ORDER BY,
\* else LIMIT n, else to the end.
inject_tenant_filter(sql, tenant_id) ==
    LET condition == Pred("tenant_id", {tenant_id})
        w == FirstIndex(sql, {"WHERE"})
        g == IF FirstIndex(sql, {"GROUP BY"}) # 0 THEN FirstIndex(sql, {"GROUP BY"})
             ELSE IF FirstIndex(sql, {"ORDER BY"}) # 0 THEN FirstIndex(sql, {"ORDER BY"})
             ELSE FirstIndex(sql, {"LIMIT 10"})
    IN  IF sql = <<>> THEN sql
        ELSE IF ~ReferencesScoped(sql) THEN sql
        ELSE IF FirstIndex(sql, {"WHERE", "where"}) # 0
        THEN IF w # 0
             THEN SubSeq(sql, 1, w - 1) \o <<WHERE, condition, AND>>
                      \o SubSeq(sql, w + 1, Len(sql))
             ELSE sql
        ELSE IF g # 0
        THEN SubSeq(sql, 1, g - 1) \o <<WHERE, condition>> \o SubSeq(sql, g, Len(sql))
        ELSE StripSemicolon(sql) \o <<WHERE, condition>>

\* the relations of the FROM clause and its joins
FromRelations(sql) == {sql[k].col : k \in {j \in 1..Len(sql) : sql[j].kind \in {"FROM", "JOIN"}}}

\* the columns a predicate of the outer query may name: tenant_id only when a
\* relation of the FROM clause has it
Columns(sql) ==
    {"device_category", "region", "gpo_name", "deal_structure", "idn_id", "status",
     "risk_status"} \cup (IF FromRelations(sql) \cap TENANT_SCOPED # {} THEN {"tenant_id"} ELSE {})

\* the rows of the FROM clause: those of the scoped relation, or rows of idns
\* and gpos, which belong to no tenant
SourceRows(sql) ==
    IF FromRelations(sql) \cap TENANT_SCOPED # {} THEN Warehouse
    ELSE {[Row("None", "None", idn) EXCEPT !.status = "None", !.risk_status = "None"] :
             idn \in {"IDN-001", "IDN-002"}}

\* one operand of the WHERE condition, for one row
ItemHolds(item, row) ==
    IF item.kind = "IN_SELECT"
    THEN \E r \in Warehouse : r[item.col] = row[item.col]
    ELSE Holds(item, row)

\* vn.run_sql(sql): DuckDB parses the statement, binds the columns and
\* evaluates the WHERE condition, AND binding tighter than OR.  A statement
\* that does not parse or names a column no relation of the FROM clause has
\* raises, and no row is returned.
run_sql(sql) ==
    LET w == FirstIndex(sql, {"WHERE", "where"})
        rest == IF w = 0 THEN <<>> ELSE SubSeq(sql, w + 1, Len(sql))
        e == FirstIndex(rest, {"GROUP BY", "ORDER BY", "LIMIT 10", ";"})
        cond == IF e = 0 THEN rest ELSE SubSeq(rest, 1, e - 1)
        operands == {k \in 1..Len(cond) : k % 2 = 1}
        parses == /\ sql # <<>> /\ sql[1].kind = "FROM"
                  /\ w # 0 => /\ Len(cond) % 2 = 1
                              /\ \A k \in 1..Len(cond) :
                                    IF k % 2 = 1 THEN cond[k].kind \in {"pred", "IN_SELECT"}
                                    ELSE cond[k] \in {AND, OR}
                  /\ \A k \in 1..Len(sql) :
                        w = 0 \/ k < w \/ (e # 0 /\ k >= w + e) => sql[k].kind \notin {"pred", "AND", "OR"}
        binds == \A k \in operands : cond[k].col \in Columns(sql)
        SameGroup(j, k) == \A i \in 1..Len(cond) :
                               (j < i /\ i < k) \/ (k < i /\ i < j) => cond[i] # OR
    IN  IF parses /\ binds
        THEN [ok |-> TRUE,
              rows |-> {row \in SourceRows(sql) :
                           w = 0 \/ \E j \in operands :
                               \A k \in operands : SameGroup(j, k) => ItemHolds(cond[k], row)}]
        ELSE [ok |-> FALSE, rows |-> {}]

\* vn.generate_sql(user_input): statements an LLM may return for a question
GeneratedSql ==
    {<<From("transactions"), WHERE, Pred("device_category", {"Cardiovascular"})>>,
     <<From("transactions"), WHERE, Pred("device_category", {"Cardiovascular"}), OR,
       Pred("gpo_name", {"Vizient"})>>,
     <<From("contracts"), where, Pred("status", {"Active"})>>,
     <<From("v_contract_risk"), GROUP_BY>>,
     <<From("transactions"), ORDER_BY, LIMIT>>,
     <<From("contracts"), SEMICOLON>>,
     <<From("idns"), Join("contracts"), WHERE, Pred("deal_structure", {"PV"})>>,
     <<From("idns"), WHERE, InSelect("idn_id", "contracts")>>,
     <<From("gpos"), WHERE, Pred("gpo_name", {"Vizient"})>>,
     <<From("idns"), ORDER_BY>>}

\* questions asked in one chat
MaxChat == 2

\* the chat handler (lines 283-323): generate the SQL, scope it to the
\* session's tenant, run it and show and store what came back
AskAssistant(generated) ==
    /\ Len(chat_history) < MaxChat
    /\ LET tenant_id == get_current_tenant_id
           sql == inject_tenant_filter(generated, tenant_id)
           df == run_sql(sql)
       IN  chat_history' = Append(chat_history,
               [tenant |-> tenant_id, generated |-> generated, sql |-> sql,
                ok |-> df.ok, rows |-> df.rows])
    /\ UNCHANGED <<wvars, cvars, nots>>

InitAssistant ==
    /\ NoThreads
    /\ NoGeneration
    /\ NoSession
    /\ NoTables
    /\ LoadedWarehouse

NextAssistant ==
    \/ \E t \in TENANT_IDS : SelectTenant(t)
    \/ \E generated \in GeneratedSql : AskAssistant(generated)

SpecAssistant == InitAssistant /\ [][NextAssistant]_vars

\* C27: for generated SQL that names a tenant-scoped relation, every row the
\* assistant shows belongs to the tenant of the session, whatever the shape of
\* the statement; SQL that names no tenant-scoped relation is run as generated.
C27_AssistantRowsOfTenant ==
    \A k \in 1..Len(chat_history) :
        LET m == chat_history[k]
        IN  IF ReferencesScoped(m.generated)
            THEN \A row \in m.rows : row.tenant_id = m.tenant
            ELSE m.sql = m.generated

(***************************************************************************)
(* Claims about the risk view over a generated warehouse                   *)
(***************************************************************************)

\* the transactions of table ts that name contract c
CountFor(c, ts) == Cardinality({j \in 1..Len(ts) : ts[j].contract_id = c.contract_id})

\* C28: over the tables main() generates, v_contract_risk has exactly one row
\* for every contract, its transaction_count is the number of transactions
\* that name the contract, and its risk_status is one of the four labels.
C28_OneRiskRowPerContract ==
    \A p \in Procs :
        TransactionsMade(p) =>
            LET cs == frames[p].contracts
                ts == frames[p].transactions
                view == v_contract_risk_over(cs, frames[p].idns, ts)
            IN  /\ Cardinality(view) = Len(cs)
                /\ \A k \in 1..Len(cs) :
                      /\ Cardinality({r \in view : r.contract_id = cs[k].contract_id}) = 1
                      /\ \A r \in view :
                            r.contract_id = cs[k].contract_id =>
                                /\ r.transaction_count = CountFor(cs[k], ts)
                                /\ r.tenant_id = cs[k].tenant_id
                /\ \A r \in view :
                      r.risk_status \in {"Critical", "At Risk", "Watch", "Healthy"}

\* C28 witness: a generated warehouse with two contracts of one IDN, one of
\* them with every transaction and the other with none
C28_Witness ==
    \E p \in Procs :
        /\ gpc[p] = "done"
        /\ \E k, m \in 1..Len(frames[p].contracts) :
              LET cs == frames[p].contracts
              IN  /\ k # m
                  /\ cs[k].idn_id = cs[m].idn_id
                  /\ CountFor(cs[k], frames[p].transactions) = MaxTxns
                  /\ CountFor(cs[m], frames[p].transactions) = 0

(***************************************************************************)
(* The margin of generated transactions, with prices at the source's scale *)
(***************************************************************************)

\* "price_range" of DEVICE_CATEGORIES, in cents
price_range(category) ==
    CASE category = "Orthopedic Implants" -> <<50000, 1500000>>
      [] category = "Cardiovascular" -> <<100000, 3000000>>
      [] category = "Surgical Instruments" -> <<5000, 200000>>
      [] category = "Consumables" -> <<500, 20000>>

\* the cents listed at each end of a price range
PriceSpan == 12

\* round(uniform(low, high), 2): the prices at the foot and at the top of the
\* range of a category; a price is kept when its thousandfold is a 32-bit
\* integer, which leaves out the prices of Cardiovascular above 21479.99
ListPrices(category) ==
    {lp \in UNION {{price_range(category)[1] + k, price_range(category)[2] - k} :
                       k \in 0..PriceSpan} : lp \div 1000 <= 2147}

\* uniform(0.25, 0.45) of generate_products, in thousandths: both ends and the middle
CostFractions == {250, 350, 449, 450}

\* a warehouse of one contract and one product of its category, both as the
\* generator makes them, before generate_transactions runs
InitMargin ==
    /\ NoThreads
    /\ NoGeneration
    /\ NoSession
    /\ LoadedWarehouse
    /\ idns = LedgerIdns
    /\ \E c \in 1..Len(DEVICE_CATEGORIES) :
          LET config == DEVICE_CATEGORIES[c]
          IN  /\ \E lp \in ListPrices(config.category), fraction \in CostFractions :
                    products = <<ProductRow(1, config.products[1], config.category,
                                            lp, fraction, 0)>>
              /\ \E ii \in 1..Len(LedgerIdns), draw \in ContractDraws :
                    contracts = <<MakeContract(1, LedgerIdns[ii], draw.structure,
                                               config.category, draw.start_date,
                                               draw.duration_months, draw.share, draw.noise,
                                               draw.pick, "meddevice_corp", 100, "Low")>>
    /\ transactions = <<>>
    /\ txn_error = "none"

NextMargin ==
    \E draw \in TxnDraws : GenerateTransaction(1, 1, 1, draw)

SpecMargin == InitMargin /\ [][NextMargin]_vars

\* C29: every transaction the generator makes from a product and a contract of
\* its own has lowest_net_price > unit_cost > 0 and margin_pct >= 15 (so
\* lowest_net_price > 0 and the margin_pct = 0 branch is not taken), the cost
\* being at most 45% of the list price and the lowest net price at least
\* list_price * 0.60 * 0.91 up to the rounding of cents; and v_contract_risk
\* classifies no contract 'At Risk'.
C29_MarginAtLeast15 ==
    /\ \A k \in 1..Len(transactions) :
          LET t == transactions[k]
          IN  /\ t.unit_cost > 0
              /\ t.lowest_net_price > t.unit_cost
              /\ t.margin_pct >= AT_RISK_MARGIN
              /\ t.margin_pct = RoundHalfEven(t.margin * 1000, t.lowest_net_price)
              /\ 1000 * t.unit_cost <= 450 * t.list_price + 500
              /\ 1000 * t.lowest_net_price >= 546 * t.list_price - 1500
    /\ \A r \in v_contract_risk : r.risk_status # "At Risk"

\* C29 witness: the cheapest product at the highest cost, sold under the
\* largest discount, fee and rebate, in every transaction of its contract
C29_Witness ==
    /\ Len(transactions) = MaxTxns
    /\ products[1].list_price = price_range("Consumables")[1]
    /\ 1000 * products[1].cost = 450 * products[1].list_price
    /\ contracts[1].base_discount_pct = MAX_DISCOUNT
    /\ GPOS[contracts[1].gpo_id] = 30
    /\ \A k \in 1..Len(transactions) :
          /\ 1000 * transactions[k].rebate_amount = 60 * transactions[k].invoice_price
          /\ transactions[k].margin_pct < 180
    /\ \E r \in v_contract_risk : r.transaction_count = MaxTxns

====
